---------------------------- MODULE Spec2Model ----------------------------
(***************************************************************************)
(* A model of the sexpr crate's reader and printer.                        *)
(*                                                                         *)
(* The recursive-descent Parser of src/src/parse.rs is modelled as a       *)
(* machine with an explicit call stack: one frame per active parse_*       *)
(* function, one action per function, one step per stretch of code that    *)
(* ends in a bump, a call, a return, an error or an abort.  Display of     *)
(* src/src/sexp/display.rs and Sexp::new_pair of src/src/sexp/mod.rs are   *)
(* operators.  A driver calls Sexp::from_str on a text and then, possibly, *)
(* on a second text obtained from the first by a small edit, so that the   *)
(* outcomes of two calls can be compared.                                  *)
(***************************************************************************)
EXTENDS Integers, Sequences, FiniteSets, TLC

VARIABLES
    src,        \* the &str handed to the running (or last) Sexp::from_str
    reader,     \* Parser.reader: the characters not yet read
    ch,         \* Parser.ch: the lookahead, None at end of input
    line,       \* Parser.line
    col,        \* Parser.col
    config,     \* Parser.config
    stack,      \* the call stack of parse_* frames, innermost first
    ret,        \* the Ok value a callee has just returned to the top frame
    outcome,    \* what from_str returned; kind "running" while it runs
    prev,       \* <<[src, outcome]>> of the previous call, <<>> before it
    calls,      \* number of from_str calls made so far
    op          \* the library call made outside the parser, with its result

vars ==
    <<src, reader, ch, line, col, config, stack, ret, outcome, prev, calls, op>>

-----------------------------------------------------------------------------
(* Characters are one-character strings; a text is a sequence of them.     *)

\* Option<char>::None, the lookahead at end of input
None == "None"

\* '\x00', the sentinel ch_or_null returns at end of input
NUL == "NUL"

LF == "\n"

TAB == "\t"

CR == "\r"

SP == " "

QUOTE == "\""

BACKSLASH == "\\"

\* '\x08' and '\x0c'
BS == "BS"

FF == "\f"

Digits == {"0", "1", "2", "3", "4", "5", "6", "7", "8", "9"}

LowerHex == {"a", "b", "c", "d", "e", "f"}

UpperHex == {"A", "B", "C", "D", "E", "F"}

\* the pattern 'a' ... 'z' of parse_symbol, over the letters the model uses
LowerAlpha == LowerHex \cup {"k", "n", "r", "s", "t", "x"}

\* characters with codepoint <= 0x1F that the model's texts can hold
ControlChars == {NUL, BS, TAB, LF, FF, CR}

DigitValue(c) ==
    CASE c = "0" -> 0 [] c = "1" -> 1 [] c = "2" -> 2 [] c = "3" -> 3
      [] c = "4" -> 4 [] c = "5" -> 5 [] c = "6" -> 6 [] c = "7" -> 7
      [] c = "8" -> 8 [] c = "9" -> 9

\* (c as u8 - b'a') as u64 + 10, and the same from b'A'
HexLetterValue(c) ==
    CASE c \in {"a", "A"} -> 10 [] c \in {"b", "B"} -> 11
      [] c \in {"c", "C"} -> 12 [] c \in {"d", "D"} -> 13
      [] c \in {"e", "E"} -> 14 [] c \in {"f", "F"} -> 15

DigitChar(d) ==
    CASE d = 0 -> "0" [] d = 1 -> "1" [] d = 2 -> "2" [] d = 3 -> "3"
      [] d = 4 -> "4" [] d = 5 -> "5" [] d = 6 -> "6" [] d = 7 -> "7"
      [] d = 8 -> "8" [] d = 9 -> "9"

-----------------------------------------------------------------------------
(* The configuration (src/src/config.rs).                                  *)

STANDARD ==
    [semi_comments |-> TRUE, square_brackets |-> TRUE,
     case_sensitive_atoms |-> FALSE, pipe_action |-> "None",
     hex_escapes |-> TRUE, radix_escape |-> FALSE, colon_keywords |-> TRUE]

-----------------------------------------------------------------------------
(* 64-bit integers beyond the integers of the model: the 64 bits as four    *)
(* 16-bit limbs, the most significant first, an i64 in two's complement.   *)

LimbBase == 65536

Limbs == 4

ZeroLimbs == [i \in 1..Limbs |-> 0]

RECURSIVE Increment(_, _)
\* wrapping_add(1) on the limbs up to the i-th
Increment(n, i) ==
    IF i = 0 THEN n
    ELSE IF n[i] = LimbBase - 1 THEN Increment([n EXCEPT ![i] = 0], i - 1)
    ELSE [n EXCEPT ![i] = @ + 1]

RECURSIVE TimesTenPlus(_, _, _)
\* 10 * n + d on the limbs from the i-th down, <<>> when it passes 2^64
TimesTenPlus(n, d, i) ==
    IF i = 0 THEN (IF d = 0 THEN n ELSE <<>>)
    ELSE CHOOSE r \in {TimesTenPlus(low, carry, i - 1) :
                            low \in {[n EXCEPT ![i] = (@ * 10 + d) % LimbBase]},
                            carry \in {(n[i] * 10 + d) \div LimbBase}} : TRUE

RECURSIVE FromDecimal(_, _)
\* the integer that the digits ds write after acc, <<>> when it passes 2^64
FromDecimal(acc, ds) ==
    IF acc = <<>> \/ ds = <<>> THEN acc
    ELSE CHOOSE r \in {FromDecimal(next, rest) :
                            next \in {TimesTenPlus(acc, DigitValue(Head(ds)), Limbs)},
                            rest \in {Tail(ds)}} : TRUE

-----------------------------------------------------------------------------
(* Sexp values, with the variants parse.rs builds and display.rs prints.   *)
(* Every value is a record of one shape.  A ConsCell (Option<Rc<Sexp>>) is *)
(* a sequence of length 0 (None) or 1 (Some).  An F64 is the decimal       *)
(* num / 10^exp with no trailing zero in its fraction.                     *)

Blank == [tag |-> "", str |-> <<>>, num |-> 0, exp |-> 0, elts |-> <<>>,
          car |-> <<>>, cdr |-> <<>>]

Symbol(s) == [Blank EXCEPT !.tag = "Symbol", !.str = s]

Keyword(s) == [Blank EXCEPT !.tag = "Keyword", !.str = s]

String(s) == [Blank EXCEPT !.tag = "String", !.str = s]

I64(n) == [Blank EXCEPT !.tag = "I64", !.num = n]

U64(n) == [Blank EXCEPT !.tag = "U64", !.num = n]

F64(m, e) == [Blank EXCEPT !.tag = "F64", !.num = m, !.exp = e]

Boolean(b) == [Blank EXCEPT !.tag = "Boolean", !.num = IF b THEN 1 ELSE 0]

List(elts) == [Blank EXCEPT !.tag = "List", !.elts = elts]

Pair(car, cdr) == [Blank EXCEPT !.tag = "Pair", !.car = car, !.cdr = cdr]

\* a new_pair that takes an empty List for nil on both sides
new_pair_nil(car, cdr) ==
    LET cell(v) == IF v.tag = "List" /\ Len(v.elts) = 0 THEN <<>> ELSE <<v>>
    IN  Pair(cell(car), cell(cdr))

\* Sexp::new_pair: the car is always Some; an empty List as cdr becomes None
new_pair(car, cdr) ==
    LET r_car == <<car>>
        r_cdr == IF cdr.tag = "List" /\ Len(cdr.elts) = 0 THEN <<>> ELSE <<cdr>>
    IN  Pair(r_car, r_cdr)


-----------------------------------------------------------------------------
(* Display (src/src/sexp/display.rs).                                      *)

RECURSIVE NatDigits(_)
\* the decimal digits of a natural number, as Rust's integer Display writes
NatDigits(n) ==
    IF n < 10 THEN <<DigitChar(n)>>
    ELSE NatDigits(n \div 10) \o <<DigitChar(n % 10)>>

IntDigits(n) == IF n < 0 THEN <<"-">> \o NatDigits(-n) ELSE NatDigits(n)

RECURSIVE Pow10(_)
Pow10(e) == IF e = 0 THEN 1 ELSE 10 * Pow10(e - 1)

RECURSIVE FracDigits(_, _)
\* the e digits of f, zero-padded on the left
FracDigits(f, e) ==
    IF e = 0 THEN <<>>
    ELSE FracDigits(f \div 10, e - 1) \o <<DigitChar(f % 10)>>

\* Rust's Display of a finite f64: the shortest decimal that reads back, with
\* no fraction for an integral value
F64Digits(m, e) ==
    LET a == IF m < 0 THEN -m ELSE m
        sign == IF m < 0 THEN <<"-">> ELSE <<>>
    IN  IF e = 0 THEN sign \o NatDigits(a)
        ELSE sign \o NatDigits(a \div Pow10(e)) \o <<".">>
                  \o FracDigits(a % Pow10(e), e)

RECURSIVE Display(_)
RECURSIVE DisplayFold(_, _)
\* elts.iter().fold("", |a, b| (if a.len() > 0 { a + " " } else { a })
\*                             + &b.to_string())
DisplayFold(a, elts) ==
    IF elts = <<>> THEN a
    ELSE DisplayFold((IF Len(a) > 0 THEN a \o <<SP>> ELSE a)
                         \o Display(Head(elts)),
                     Tail(elts))

Display(v) ==
    CASE v.tag \in {"Symbol", "Keyword"} -> v.str
      [] v.tag = "String" -> <<QUOTE>> \o v.str \o <<QUOTE>>
      [] v.tag = "F64" -> F64Digits(v.num, v.exp)
      [] v.tag \in {"I64", "U64"} -> IntDigits(v.num)
      [] v.tag = "Boolean" -> IF v.num = 1 THEN <<"#", "t">> ELSE <<"#", "f">>
      [] v.tag = "List" -> <<"(">> \o DisplayFold(<<>>, v.elts) \o <<")">>
      [] v.tag = "Pair" /\ v.car # <<>> /\ v.cdr # <<>> ->
            <<"(">> \o Display(v.car[1]) \o <<SP, ".", SP>>
                    \o Display(v.cdr[1]) \o <<")">>
      [] v.tag = "Pair" /\ v.car # <<>> /\ v.cdr = <<>> ->
            <<"(">> \o Display(v.car[1]) \o <<")">>
      [] v.tag = "Pair" /\ v.car = <<>> /\ v.cdr # <<>> ->
            <<"(", "(", ")", SP, ".", SP>> \o Display(v.cdr[1]) \o <<")">>
      [] v.tag = "Pair" /\ v.car = <<>> /\ v.cdr = <<>> ->
            <<"(", "(", ")", ")">>

-----------------------------------------------------------------------------
(* The Parser (src/src/parse.rs).                                          *)

\* line and col are usize: the model keeps UsizeBits bits of them
UsizeBits == 5

RECURSIVE Pow2(_)
Pow2(n) == IF n = 0 THEN 1 ELSE 2 * Pow2(n - 1)

USIZE_MAX == Pow2(UsizeBits) - 1

\* the most characters a String holds: one more and its allocation fails
MaxText == 24

Frame(fn, pc) ==
    [fn |-> fn, pc |-> pc, opening_ch |-> None, result |-> <<>>,
     text |-> <<>>, flag |-> FALSE, accumulator |-> 0, length |-> 0,
     caller |-> ""]

Top == stack[1]

\* the stack with its top frame replaced
Replace(f) == <<f>> \o Tail(stack)

Idle == [kind |-> "Idle", val |-> Blank, code |-> "", line |-> 0, col |-> 0]

Running == [Idle EXCEPT !.kind = "Running"]

Ok(v) == [Idle EXCEPT !.kind = "Ok", !.val = v]

\* Err(SyntaxError(reason, self.line, self.col))
SyntaxError(reason, l, c) ==
    [Idle EXCEPT !.kind = "Err", !.code = reason, !.line = l, !.col = c]

\* a panic: unreachable!(), an index out of bounds, an arithmetic overflow
Panic(why) == [Idle EXCEPT !.kind = "Panic", !.code = why]

eof == ch = None

ch_or_null == IF ch = None THEN NUL ELSE ch

Whitespace == {SP, LF, TAB, CR}

\* a step that reads nothing and leaves the stack as stk
Goto(stk) ==
    /\ stack' = stk
    /\ ret' = <<>>
    /\ UNCHANGED <<src, reader, ch, line, col, config, outcome, prev, calls,
                   op>>

\* Parser::error: the whole call returns Err, nothing is resumed
error(reason) ==
    /\ outcome' = SyntaxError(reason, line, col)
    /\ stack' = <<>>
    /\ ret' = <<>>
    /\ UNCHANGED <<src, reader, ch, line, col, config, prev, calls, op>>

\* the thread panics and from_str never returns
abort(why) ==
    /\ outcome' = Panic(why)
    /\ stack' = <<>>
    /\ ret' = <<>>
    /\ UNCHANGED <<src, reader, ch, line, col, config, prev, calls, op>>

\* the top frame returns Ok(v): to its caller, or out of from_str
return(v) ==
    /\ stack' = Tail(stack)
    /\ IF Tail(stack) = <<>>
       THEN outcome' = Ok(v) /\ ret' = <<>>
       ELSE outcome' = outcome /\ ret' = <<v>>
    /\ UNCHANGED <<src, reader, ch, line, col, config, prev, calls, op>>

\* Parser::bump on the reader rdr at position (l, c) under cfg, leaving the
\* stack stk: read a character, count it, and on ';' enter parse_comment.
\* col += 1 at usize::MAX wraps in a release build and panics in a debug one.
bump_from(rdr, l, c, cfg, stk) ==
    LET nxt == IF rdr = <<>> THEN None ELSE Head(rdr)
    IN  \/ /\ ch' = nxt
           /\ reader' = IF rdr = <<>> THEN <<>> ELSE Tail(rdr)
           /\ IF nxt = LF
              THEN line' = (l + 1) % Pow2(UsizeBits) /\ col' = 1
              ELSE line' = l /\ col' = (c + 1) % Pow2(UsizeBits)
           /\ stack' = IF cfg.semi_comments /\ nxt = ";"
                       THEN <<Frame("parse_comment", "loop")>> \o stk
                       ELSE stk
           /\ ret' = <<>>
           /\ outcome' = Running
        \/ /\ \/ nxt # LF /\ c = USIZE_MAX
              \/ nxt = LF /\ l = USIZE_MAX
           /\ outcome' = Panic("attempt to add with overflow")
           /\ stack' = <<>>
           /\ ret' = <<>>
           /\ UNCHANGED <<reader, ch, line, col>>

bump(stk) ==
    /\ bump_from(reader, line, col, config, stk)
    /\ UNCHANGED <<src, config, prev, calls, op>>

\* Sexp::from_str(s): Parser::new(s.chars()) and then Parser::parse
from_str(s) ==
    /\ stack = <<>>
    /\ src' = s
    /\ config' = STANDARD
    /\ bump_from(s, 1, 0, STANDARD, <<Frame("parse_value", "start")>>)
    /\ prev' = IF calls = 0 THEN <<>>
               ELSE <<[src |-> src, outcome |-> outcome]>>
    /\ calls' = calls + 1
    /\ UNCHANGED op

\* Parser::parse on a Parser over s.chars() whose config field is cfg
parse_with(s, cfg) ==
    /\ stack = <<>>
    /\ src' = s
    /\ config' = cfg
    /\ bump_from(s, 1, 0, cfg, <<Frame("parse_value", "start")>>)
    /\ prev' = <<>>
    /\ calls' = calls + 1
    /\ UNCHANGED op

\* a parse_comment that returns at once, on any lookahead
parse_comment_no_skip ==
    /\ stack # <<>> /\ Top.fn = "parse_comment"
    /\ Goto(Tail(stack))

\* while !self.ch_is('\n') { self.bump(); }
parse_comment ==
    /\ stack # <<>> /\ Top.fn = "parse_comment"
    /\ IF ch # LF THEN bump(stack) ELSE Goto(Tail(stack))

\* while the lookahead is ' ', '\n', '\t' or '\r' { self.bump(); }
parse_whitespace ==
    /\ stack # <<>> /\ Top.fn = "parse_whitespace"
    /\ IF ch \in Whitespace THEN bump(stack) ELSE Goto(Tail(stack))

\* parse_symbol, called by parse_atom or parse_keyword (Top.caller)
parse_symbol ==
    /\ stack # <<>> /\ Top.fn = "parse_symbol"
    /\ LET c == ch_or_null
           pushed == Replace([Top EXCEPT !.text = Append(@, c)])
       IN  CASE c \in LowerAlpha -> bump(pushed)
             [] /\ c \notin LowerAlpha
                /\ c \in {TAB, SP, LF, ")", NUL, "]"}
                /\ config.square_brackets ->
                    IF Len(Top.text) > 0
                    THEN return(IF Top.caller = "parse_keyword"
                                THEN Keyword(Top.text) ELSE Symbol(Top.text))
                    ELSE error("InvalidAtom")
             [] OTHER ->
                    IF eof /\ Len(Top.text) >= MaxText
                    THEN abort("memory allocation failed")
                    ELSE bump(pushed)

\* parse_string: the loop body runs once per step, from the bump at its top
parse_string ==
    /\ stack # <<>> /\ Top.fn = "parse_string"
    /\ LET push(c) == Replace([Top EXCEPT !.text = Append(@, c),
                                          !.flag = FALSE, !.pc = "examine"])
       IN  CASE Top.pc = "bump" -> bump(Replace([Top EXCEPT !.pc = "examine"]))
             [] Top.pc = "examine" /\ Top.flag ->
                    CASE ch = QUOTE -> bump(push(QUOTE))
                      [] ch = BACKSLASH -> bump(push(BACKSLASH))
                      [] ch = "/" -> bump(push("/"))
                      [] ch = "b" -> bump(push(BS))
                      [] ch = "f" -> bump(push(FF))
                      [] ch = "n" -> bump(push(LF))
                      [] ch = "r" -> bump(push(CR))
                      [] ch = "t" -> bump(push(TAB))
                      [] ch = None -> error("UnexpectedEndOfHexEscape")
                      [] OTHER -> error("InvalidEscape")
             [] Top.pc = "examine" /\ ~Top.flag ->
                    CASE ch = BACKSLASH ->
                            bump(Replace([Top EXCEPT !.flag = TRUE]))
                      [] ch = QUOTE ->
                            bump(Replace([Top EXCEPT !.pc = "return"]))
                      [] ch = None -> abort("unreachable")
                      [] ch \in ControlChars ->
                            error("ControlCharacterInString")
                      [] OTHER -> bump(push(ch))
             [] Top.pc = "return" -> return(String(Top.text))

RECURSIVE DigitsValue(_, _)
\* the value of a run of decimal digits, most significant first
DigitsValue(acc, ds) ==
    IF ds = <<>> THEN acc
    ELSE DigitsValue(acc * 10 + DigitValue(Head(ds)), Tail(ds))

IsDigit(c) == c \in Digits

\* a parse::<i64> that takes every run of digits, whatever its length
parse_i64_unbounded(text) ==
    LET ds == SelectSeq(text, IsDigit)
    IN  IF ds = <<>> THEN <<>>
        ELSE IF Len(ds) <= 9
        THEN <<I64(IF Head(text) = "-" THEN -DigitsValue(0, ds)
                   ELSE DigitsValue(0, ds))>>
        ELSE <<I64(ZeroLimbs)>>

\* str::parse::<i64> of a token made of an optional leading '-' and digits:
\* an error without a digit or outside the range of i64.  The num of a value
\* of more than 9 digits is the limbs of the integer.
parse_i64(text) ==
    LET ds == SelectSeq(text, IsDigit)
        n == DigitsValue(0, ds)
        m == FromDecimal(ZeroLimbs, ds)
        min == [ZeroLimbs EXCEPT ![1] = LimbBase \div 2]
    IN  IF ds = <<>> THEN <<>>
        ELSE IF Len(ds) <= 9
        THEN <<I64(IF Head(text) = "-" THEN -n ELSE n)>>
        ELSE IF m = <<>> THEN <<>>
        ELSE IF Head(text) = "-"
        THEN (IF m[1] < LimbBase \div 2 \/ m = min
              THEN <<I64(Increment([i \in 1..Limbs |-> LimbBase - 1 - m[i]], Limbs))>>
              ELSE <<>>)
        ELSE (IF m[1] < LimbBase \div 2 THEN <<I64(m)>> ELSE <<>>)

RECURSIVE Normalize(_, _)
\* drop the trailing zeros of a fraction
Normalize(m, e) ==
    IF e > 0 /\ m % 10 = 0 THEN Normalize(m \div 10, e - 1) ELSE F64(m, e)

IsDot(c) == c = "."

\* str::parse::<f64> of a token made of an optional leading '-', digits and
\* dots: an error unless it has exactly one '.' and at least one digit
parse_f64(text) ==
    LET ds == SelectSeq(text, IsDigit)
        dot == CHOOSE i \in 1..Len(text) : text[i] = "."
        n == DigitsValue(0, ds)
    IN  IF Len(SelectSeq(text, IsDot)) # 1 \/ ds = <<>> THEN <<>>
        ELSE <<Normalize(IF Head(text) = "-" THEN -n ELSE n, Len(text) - dot)>>

\* parse_numeric: starts with the lookahead ('-' or a digit) as its text
parse_numeric ==
    /\ stack # <<>> /\ Top.fn = "parse_numeric"
    /\ LET next_char(f) ==
               bump(Replace([f EXCEPT !.flag = @ \/ ch = ".",
                                      !.pc = "examine"]))
           n == IF Top.flag THEN parse_f64(Top.text) ELSE parse_i64(Top.text)
       IN  CASE Top.pc = "loop" -> next_char(Top)
             [] Top.pc = "examine" /\ (ch = "." \/ ch \in Digits) ->
                    next_char([Top EXCEPT !.text = Append(@, ch)])
             [] Top.pc = "examine" /\ ch = None ->
                    error("EOFWhileParsingNumeric")
             [] OTHER -> IF n = <<>> THEN error("InvalidNumber")
                         ELSE return(n[1])

\* parse_hexadecimal: entered with '#' as the lookahead
parse_hexadecimal ==
    /\ stack # <<>> /\ Top.fn = "parse_hexadecimal"
    /\ LET finish(f) == IF f.length = 0
                        THEN error("UnexpectedEndOfHexEscape")
                        ELSE return(U64(f.accumulator))
           \* while !self.eof() { match self.next_char() ...
           loop(f) == IF eof THEN finish(f)
                      ELSE bump(Replace([f EXCEPT !.pc = "digit"]))
           add(significand) ==
               loop([Top EXCEPT !.length = @ + 1,
                                !.accumulator = @ * 10 + significand])
       IN  CASE Top.pc = "start" -> bump(Replace([Top EXCEPT !.pc = "x"]))
             [] Top.pc = "x" -> IF ch # "x" THEN error("UnrecognizedHex")
                                ELSE loop(Top)
             [] Top.pc = "digit" ->
                    CASE ch \in Digits -> add(DigitValue(ch))
                      [] ch \in LowerHex \cup UpperHex -> add(HexLetterValue(ch))
                      [] ch \in {SP, TAB, LF, ")"} -> finish(Top)
                      [] ch = None -> abort("unreachable")
                      [] OTHER -> error("InvalidNumber")

\* parse_list(opening_ch): entered after the bump over the opening bracket
parse_list ==
    /\ stack # <<>> /\ Top.fn = "parse_list"
    /\ LET c == ch_or_null
           call(pc) == Goto(<<Frame("parse_value", "start")>>
                                \o Replace([Top EXCEPT !.pc = pc]))
           pushed == Append(Top.result, ret[1])
       IN  CASE Top.pc = "loop" ->
                    Goto(<<Frame("parse_whitespace", "loop")>>
                             \o Replace([Top EXCEPT !.pc = "match"]))
             [] Top.pc = "match" ->
                    CASE c = "." -> bump(Replace([Top EXCEPT !.pc = "dot"]))
                      [] c \in {")", "]"} ->
                            IF \/ c = ")" /\ Top.opening_ch = "["
                               \/ /\ config.square_brackets
                                  /\ c = "]" /\ Top.opening_ch = "("
                            THEN error("UnbalancedClosingParen")
                            ELSE bump(Replace([Top EXCEPT !.pc = "break"]))
                      [] c = NUL -> error("EOFWhileParsingList")
                      [] OTHER -> call("pushed")
             [] Top.pc = "pushed" ->
                    IF eof THEN return(List(pushed))
                    ELSE Goto(Replace([Top EXCEPT !.result = pushed,
                                                  !.pc = "loop"]))
             [] Top.pc = "break" -> return(List(Top.result))
             [] Top.pc = "dot" -> call("dot_pushed")
             [] Top.pc = "dot_pushed" ->
                    IF ch = ")"
                    THEN bump(Replace([Top EXCEPT !.result = pushed,
                                                  !.pc = "new_pair"]))
                    ELSE error("MissingCloseParen")
             [] Top.pc = "new_pair" ->
                    IF Len(Top.result) < 2
                    THEN abort("index out of bounds")
                    ELSE return(new_pair(Top.result[1], Top.result[2]))

\* parse_value (and Parser::parse, which only calls it)
parse_value ==
    /\ stack # <<>> /\ Top.fn = "parse_value"
    /\ LET c == ch_or_null
           enter(fn, pc) == Replace(Frame(fn, pc))
       IN  CASE Top.pc = "start" ->
                    IF eof THEN error("EOFWhileParsingValue")
                    ELSE Goto(<<Frame("parse_whitespace", "loop")>>
                                  \o Replace([Top EXCEPT !.pc = "match"]))
             [] Top.pc = "match" ->
                    CASE c \in {"(", "["} /\ config.square_brackets ->
                            bump(Replace([Frame("parse_list", "loop")
                                            EXCEPT !.opening_ch = c]))
                      [] c = ")" -> error("UnexpectedEndOfList")
                      [] c = "-" \/ c \in Digits ->
                            Goto(Replace([Frame("parse_numeric", "loop")
                                            EXCEPT !.text = <<ch>>]))
                      [] c = QUOTE -> Goto(enter("parse_string", "bump"))
                      [] c = "#" /\ config.hex_escapes ->
                            Goto(enter("parse_hexadecimal", "start"))
                      [] c = ":" /\ config.colon_keywords ->
                            Goto(Replace([Frame("parse_symbol", "loop")
                                            EXCEPT !.caller = "parse_keyword"]))
                      [] c = NUL -> error("EOFWhileParsingValue")
                      [] OTHER ->
                            Goto(Replace([Frame("parse_symbol", "loop")
                                            EXCEPT !.caller = "parse_atom"]))

-----------------------------------------------------------------------------
(* The text Serializer (src/src/serializer.rs).                            *)

\* the bytes 0x01 and 0x7f
SOH == "SOH"

DEL == "DEL"

\* the escape of escape_str for a byte, <<>> for a byte it copies
escaped(byte) ==
    CASE byte = QUOTE -> <<BACKSLASH, QUOTE>>
      [] byte = BACKSLASH -> <<BACKSLASH, BACKSLASH>>
      [] byte = NUL -> <<BACKSLASH, "u", "0", "0", "0", "0">>
      [] byte = SOH -> <<BACKSLASH, "u", "0", "0", "0", "1">>
      [] byte = BS -> <<BACKSLASH, "b">>
      [] byte = TAB -> <<BACKSLASH, "t">>
      [] byte = LF -> <<BACKSLASH, "n">>
      [] byte = FF -> <<BACKSLASH, "f">>
      [] byte = CR -> <<BACKSLASH, "r">>
      [] byte = DEL -> <<BACKSLASH, "u", "0", "0", "7", "f">>
      [] OTHER -> <<>>

RECURSIVE escape_bytes(_)
escape_bytes(v) ==
    IF v = <<>> THEN <<>>
    ELSE (IF escaped(Head(v)) = <<>> THEN <<Head(v)>> ELSE escaped(Head(v)))
             \o escape_bytes(Tail(v))

\* escape_str(v): v between double quotes, its bytes escaped
escape_str(v) == <<QUOTE>> \o escape_bytes(v) \o <<QUOTE>>

-----------------------------------------------------------------------------
(* The values given to to_string: what a Serialize impl offers to the       *)
(* Serializer.  A u64 or an i64 is its 64 bits as four 16-bit limbs, the    *)
(* most significant first, an i64 in two's complement.  Failing is a value  *)
(* whose Serialize impl returns Err(Error::custom(..)) without calling the  *)
(* serializer.  A name, a key or a variant is a text.                       *)

TBool(b) == [ty |-> "bool", b |-> b]

TU64(n) == [ty |-> "u64", n |-> n]

TI64(n) == [ty |-> "i64", n |-> n]

TStr(s) == [ty |-> "str", text |-> s]

TUnit == [ty |-> "unit"]

Failing == [ty |-> "failing"]

TSeq(items) == [ty |-> "seq", items |-> items]

\* entries: a sequence of <<key, value>>, both values
TMap(entries) == [ty |-> "map", entries |-> entries]

\* fields: a sequence of <<key, value>>, the key a text
TStruct(name, fields) == [ty |-> "struct", name |-> name, fields |-> fields]

TStructVariant(variant, fields) ==
    [ty |-> "struct_variant", name |-> variant, fields |-> fields]

TTupleStruct(name, items) ==
    [ty |-> "tuple_struct", name |-> name, items |-> items]

TTupleVariant(variant, items) ==
    [ty |-> "tuple_variant", name |-> variant, items |-> items]

TUnitVariant(variant) == [ty |-> "unit_variant", name |-> variant]

TNewtypeVariant(variant, value) ==
    [ty |-> "newtype_variant", name |-> variant, items |-> <<value>>]

\* Serializer { output } after a serialize call, and whether it returned Err
Wrote(output) == [err |-> FALSE, output |-> output]

Failed(output) == [err |-> TRUE, output |-> output]

RECURSIVE DivLimbs(_, _, _)
\* the limbs of n / 10 after the first i - 1 of them, r carried in
DivLimbs(n, i, r) ==
    IF i > Limbs THEN <<>>
    ELSE LET cur == r * LimbBase + n[i]
         IN  <<cur \div 10>> \o DivLimbs(n, i + 1, cur % 10)

RECURSIVE ModLimbs(_, _, _)
\* n % 10
ModLimbs(n, i, r) ==
    IF i > Limbs THEN r ELSE ModLimbs(n, i + 1, (r * LimbBase + n[i]) % 10)

RECURSIVE u64_to_string(_)
\* u64::to_string: the decimal digits, "0" for zero
u64_to_string(n) ==
    LET q == DivLimbs(n, 1, 0)
        d == <<DigitChar(ModLimbs(n, 1, 0))>>
    IN  IF q = ZeroLimbs THEN d ELSE u64_to_string(q) \o d

\* an i64 printed as the u64 of the same bits
i64_as_u64(n) == u64_to_string(n)

\* i64::to_string: "-" and the digits of (!(v as u64)).wrapping_add(1) for a
\* negative v, the digits of v as u64 otherwise
i64_to_string(n) ==
    IF n[1] >= LimbBase \div 2
    THEN <<"-">> \o u64_to_string(Increment([i \in 1..Limbs |-> LimbBase - 1 - n[i]], Limbs))
    ELSE u64_to_string(n)

ends_with(output, c) == output # <<>> /\ output[Len(output)] = c

\* if !self.output.ends_with('(') { self.output += " "; }
Spaced(output) == IF ends_with(output, "(") THEN output ELSE output \o <<" ">>

RECURSIVE serialize(_, _)
RECURSIVE serialize_elements(_, _)
RECURSIVE serialize_entries(_, _)
RECURSIVE serialize_fields(_, _)

\* SerializeSeq, SerializeTuple, SerializeTupleStruct and
\* SerializeTupleVariant: serialize_element / serialize_field for each item,
\* the first error returned by `?` in the caller
serialize_elements(items, output) ==
    IF items = <<>> THEN Wrote(output)
    ELSE LET r == serialize(Head(items), Spaced(output))
         IN  IF r.err THEN r ELSE serialize_elements(Tail(items), r.output)

\* the value of a map entry: its error is dropped
serialize_value(value, output) ==
    Wrote(serialize(value, output \o <<" ", ".", " ">>).output \o <<")">>)

\* SerializeMap: serialize_key and serialize_value for each entry
serialize_entries(entries, output) ==
    IF entries = <<>> THEN Wrote(output)
    ELSE LET k == serialize(Head(entries)[1], Spaced(output) \o <<"(">>)
         IN  IF k.err THEN k
             ELSE serialize_entries(Tail(entries),
                                    serialize_value(Head(entries)[2], k.output).output)

\* SerializeStruct and SerializeStructVariant: serialize_field(key, value),
\* the error of the value dropped
serialize_field(key, value, output) ==
    LET o == IF ends_with(output, ")") THEN output \o <<" ">> ELSE output
    IN  Wrote(serialize(value, o \o <<"(">> \o key \o <<" ">>).output \o <<")">>)

serialize_fields(fields, output) ==
    IF fields = <<>> THEN Wrote(output)
    ELSE serialize_fields(Tail(fields),
                          serialize_field(Head(fields)[1], Head(fields)[2], output).output)

\* output followed by ")": the end of a Serialize* that went without error
End(r, closing) == IF r.err THEN r ELSE Wrote(r.output \o closing)

\* value.serialize(&mut serializer) for each kind of value
serialize(v, output) ==
    CASE v.ty = "bool" -> Wrote(output \o (IF v.b THEN <<"#", "t">> ELSE <<"#", "f">>))
      [] v.ty = "u64" -> Wrote(output \o u64_to_string(v.n))
      [] v.ty = "i64" -> Wrote(output \o i64_to_string(v.n))
      [] v.ty = "str" -> Wrote(output \o escape_str(v.text))
      [] v.ty = "unit" -> Wrote(output \o <<"(", ")">>)
      [] v.ty = "failing" -> Failed(output)
      [] v.ty = "unit_variant" -> Wrote(output \o v.name)
      [] v.ty = "newtype_variant" ->
            LET r == serialize(TStr(v.name), output \o <<"(">>)
                w == serialize(v.items[1], r.output \o <<" ">>)
            IN  IF r.err THEN r ELSE End(w, <<")">>)
      [] v.ty = "seq" ->
            End(serialize_elements(v.items, output \o <<"(">>), <<")">>)
      [] v.ty = "tuple_struct" ->
            End(serialize_elements(v.items,
                    output \o <<"(", "(", "T", "v", "a", "r", "i", "a", "n", "t", " ">>
                           \o v.name \o <<")", " ">> \o <<"(">>),
                <<")", ")">>)
      [] v.ty = "tuple_variant" ->
            End(serialize_elements(v.items,
                    output \o <<"(", "(", "S", "T", "V", "v", "a", "r", "i", "a", "n", "t", " ">>
                           \o v.name \o <<")", " ", "(">>),
                <<")", ")">>)
      [] v.ty = "map" ->
            End(serialize_entries(v.entries, output \o <<"(">>), <<")">>)
      [] v.ty = "struct" ->
            End(serialize_fields(v.fields,
                    output \o <<"(", "(", "S", "v", "a", "r", "i", "a", "n", "t", " ">>
                           \o v.name \o <<")", " ">> \o <<"(">>),
                <<")">>)
      [] v.ty = "struct_variant" ->
            End(serialize_fields(v.fields,
                    output \o <<"(", "(", "S", "V", "v", "a", "r", "i", "a", "n", "t", " ">>
                           \o v.name \o <<")", " ">> \o <<"(">>),
                <<")">>)

\* Err(e) of to_string: the error a Serialize impl made with Error::custom
SerError == [kind |-> "Err", code |-> "custom"]

\* to_string(value): value.serialize(&mut serializer)?; Ok(serializer.output)
to_string(value) ==
    LET r == serialize(value, <<>>)
    IN  IF r.err THEN SerError ELSE [kind |-> "Ok", output |-> r.output]

-----------------------------------------------------------------------------
(* The tree Serializer (src/src/sexp/ser.rs) and Serialize for Sexp.  The   *)
(* num of an I64 or a U64 built here is the limbs of the integer.  The      *)
(* Sexp::Array a sequence ends in is the List of the data model; the        *)
(* Sexp::Object of a map, a struct and a variant with a payload is no       *)
(* variant of Sexp and has no arm in Serialize for Sexp: the tree path is   *)
(* modelled for the values that need none.                                  *)

TreeOk(value) == [kind |-> "Ok", value |-> value]

RECURSIVE to_value(_)
RECURSIVE to_values(_, _)
RECURSIVE tree_serialize(_)

\* SerializeVec::serialize_element for each item:
\* self.vec.push(try!(to_value(&value)))
to_values(items, vec) ==
    IF items = <<>> THEN TreeOk(List(vec))
    ELSE LET r == to_value(Head(items))
         IN  IF r.kind = "Ok" THEN to_values(Tail(items), Append(vec, r.value))
             ELSE r

\* to_value(value): value.serialize(Serializer) with the tree Serializer
to_value(v) == tree_serialize(v)

\* impl serde::Serializer for Serializer: the method the value calls
tree_serialize(v) ==
    CASE v.ty = "bool" -> TreeOk(Boolean(v.b))
      [] v.ty = "u64" -> TreeOk(U64(v.n))
      [] v.ty = "i64" -> TreeOk(I64(v.n))
      [] v.ty = "str" -> TreeOk(String(v.text))
      [] v.ty = "unit" -> TreeOk(List(<<>>))
      [] v.ty = "unit_variant" -> TreeOk(String(v.name))
      [] v.ty \in {"seq", "tuple_struct"} -> to_values(v.items, <<>>)
      [] v.ty = "failing" -> SerError

\* a panic of Serialize for Sexp: unimplemented!()
TreePanic == [kind |-> "Panic", code |-> "unimplemented"]

RECURSIVE HasPair(_)
\* serializing v reaches a Pair
HasPair(v) ==
    \/ v.tag = "Pair"
    \/ v.tag = "List" /\ \E i \in 1..Len(v.elts) : HasPair(v.elts[i])

RECURSIVE Offer(_)
\* Serialize for Sexp: the serializer method v calls, as the value it offers
Offer(v) ==
    CASE v.tag = "Boolean" -> TBool(v.num = 1)
      [] v.tag = "U64" -> TU64(v.num)
      [] v.tag = "I64" ->
            IF v.num[1] >= LimbBase \div 2 THEN TI64(v.num) ELSE TU64(v.num)
      [] v.tag \in {"Symbol", "Keyword", "String"} -> TStr(v.str)
      [] v.tag = "List" -> TSeq([i \in 1..Len(v.elts) |-> Offer(v.elts[i])])

\* to_string(&v) for a Sexp v
sexp_to_string(v) == IF HasPair(v) THEN TreePanic ELSE to_string(Offer(v))

-----------------------------------------------------------------------------
(* Number (src/src/number.rs): one of the arms U64, I64 and F64.  An integer *)
(* is its 64 bits as limbs; a float is finite, with a decimal value, or NaN  *)
(* or an infinity.                                                           *)

NumberOf(arm, v) == [arm |-> arm, v |-> v]

\* Option<Number>::None
NoNumber == [arm |-> "None", v |-> <<>>]

Finite(m, e) == [class |-> "finite", m |-> m, e |-> e]

NaN == [class |-> "nan", m |-> 0, e |-> 0]

Infinity(sign) == [class |-> "infinite", m |-> sign, e |-> 0]

\* i < 0 for an i64
IsNegative(i) == i[1] >= LimbBase \div 2

\* i as i64, for an i of a narrower signed type held as an integer
Widen(i) ==
    IF i < 0
    THEN Increment([k \in 1..Limbs |->
                        LimbBase - 1 - <<0, 0, (-i) \div LimbBase, (-i) % LimbBase>>[k]],
                   Limbs)
    ELSE <<0, 0, i \div LimbBase, i % LimbBase>>

\* from_signed!: impl From<i64> for Number
from_signed(i) ==
    IF IsNegative(i) THEN NumberOf("I64", i) ELSE NumberOf("U64", i)

\* from_unsigned!: impl From<u64> for Number
from_unsigned(u) == NumberOf("U64", u)

\* Number::from_f64
from_f64(f) == IF f.class = "finite" THEN NumberOf("F64", f) ELSE NoNumber

\* an is_i64 that takes every U64 for an i64
is_i64_any(n) == n.arm \in {"U64", "I64"}

\* Number::is_i64: v <= i64::MAX as u64 for the U64 arm
is_i64(n) ==
    CASE n.arm = "U64" -> n.v[1] <= LimbBase \div 2 - 1
      [] n.arm = "I64" -> TRUE
      [] n.arm = "F64" -> FALSE

\* Number::is_u64
is_u64(n) == n.arm = "U64"

\* Number::is_f64
is_f64(n) == n.arm = "F64"

-----------------------------------------------------------------------------
(* Library calls outside the parser: op holds the call and what it gave.   *)

NoCall == [name |-> "none"]

\* the call name(arg) returned result
Call(name, arg, result) == [name |-> name, arg |-> arg, result |-> result]

\* a call is made on a fresh library: nothing of the parser moves
Apply(name, arg, result) ==
    /\ op = NoCall
    /\ op' = Call(name, arg, result)
    /\ UNCHANGED <<src, reader, ch, line, col, config, stack, ret, outcome,
                   prev, calls>>

-----------------------------------------------------------------------------
(* The rustc_serialize Decoder (src/src/decodable.rs).  Its stack is a Vec  *)
(* whose top is its last element.                                           *)

\* Decoder::new(sexp)
Decoder_new(sexp) == <<sexp>>

\* what a read returns, and the stack it leaves: called tells whether the
\* closure f was invoked, len is the len read_seq counted, values what f read
Reading(kind, code, called, len, values, stk) ==
    [kind |-> kind, code |-> code, called |-> called, len |-> len,
     values |-> values, stack |-> stk]

\* Decoder::pop: self.stack.pop(), or Err(EOF) on an empty stack
pop(stk) ==
    IF stk = <<>> THEN Reading("Err", "EOF", FALSE, 0, <<>>, stk)
    ELSE Reading("Ok", "", FALSE, 0, <<stk[Len(stk)]>>,
                 SubSeq(stk, 1, Len(stk) - 1))

\* read_seq up to its call of f: array is the Result of pop, whose iterator
\* yields the popped value if it is Ok and nothing if it is Err
read_seq(stk) ==
    LET array == pop(stk)
    IN  IF array.kind = "Ok"
        THEN [stack |-> array.stack \o array.values, len |-> 1]
        ELSE [stack |-> array.stack, len |-> 0]

\* read_tuple_arg(idx, f) and read_seq_elt(idx, f) with f = |d| d.pop()
read_tuple_arg(stk) == pop(stk)

RECURSIVE read_args(_, _, _)
\* the closure a tuple of k fields gives to read_tuple: one read_tuple_arg
\* for each field in turn, stopping at the first error
read_args(stk, k, values) ==
    IF k = 0 THEN Reading("Ok", "", TRUE, 0, values, stk)
    ELSE LET r == read_tuple_arg(stk)
         IN  IF r.kind = "Ok"
             THEN read_args(r.stack, k - 1, values \o r.values)
             ELSE [r EXCEPT !.called = TRUE, !.values = values]

\* read_tuple(tuple_len, f), f reading the tuple_len fields
read_tuple(stk, tuple_len) ==
    LET seq == read_seq(stk)
    IN  IF seq.len = tuple_len
        THEN [read_args(seq.stack, tuple_len, <<>>) EXCEPT !.len = seq.len]
        ELSE Reading("Err", "ExpectedError", FALSE, seq.len, <<>>, seq.stack)

-----------------------------------------------------------------------------
(* The list utilities (src/src/sexp/mod.rs).                               *)

\* Err(code) of into_map
IntoAlistError(code) == [kind |-> "Err", code |-> code, map |-> <<>>]

\* Ok(map): the BTreeMap as a function from key texts to cdr slots
OkMap(map) == [kind |-> "Ok", code |-> "", map |-> map]

\* the loop of into_map over the items left, map holding the entries so far,
\* with no check that a key is new
RECURSIVE into_map_replacing(_, _)
into_map_replacing(items, map) ==
    IF items = <<>> THEN OkMap(map)
    ELSE LET elt == Head(items)
         IN  IF elt.tag # "Pair" \/ elt.car = <<>>
             THEN IntoAlistError("KeyValueMustBePair")
             ELSE LET key == Display(elt.car[1])
                  IN  IF key = <<>>
                      THEN IntoAlistError("KeyValueMustBePair")
                      ELSE into_map_replacing(Tail(items),
                                              (key :> elt.cdr) @@ map)

\* the loop of into_map over the items left, map holding the entries so far
RECURSIVE into_map_items(_, _)
into_map_items(items, map) ==
    IF items = <<>> THEN OkMap(map)
    ELSE LET elt == Head(items)
         IN  IF elt.tag # "Pair" \/ elt.car = <<>>
             THEN IntoAlistError("KeyValueMustBePair")
             ELSE LET key == Display(elt.car[1])
                  IN  IF key = <<>>
                      THEN IntoAlistError("KeyValueMustBePair")
                      ELSE IF key \in DOMAIN map
                      THEN IntoAlistError("DuplicateKey")
                      ELSE into_map_items(Tail(items),
                                          (key :> elt.cdr) @@ map)

\* Sexp::into_map(self)
into_map(self) ==
    IF self.tag = "List" THEN into_map_items(self.elts, <<>>)
    ELSE IntoAlistError("ContainerSexpNotList")

\* the result of a list utility and the list it leaves: Ok(value) or
\* Ok(index), Err(code), or a panic of the thread
ListResult(kind, code, value, index, after) ==
    [kind |-> kind, code |-> code, value |-> value, index |-> index,
     after |-> after]

ListOk(value, after) == ListResult("Ok", "", value, 0, after)

ListErr(code, after) == ListResult("Err", code, Blank, 0, after)

ListPanic == ListResult("Panic", "", Blank, 0, Blank)

\* an Option<Sexp>, or the panic of an index out of bounds
Some(v) == [kind |-> "Some", value |-> v]

NoSexp == [kind |-> "None", value |-> Blank]

OutOfBounds == [kind |-> "Panic", value |-> Blank]

\* Sexp::car: elts[0]
car(self) ==
    IF self.tag # "List" THEN NoSexp
    ELSE IF Len(self.elts) < 1 THEN OutOfBounds ELSE Some(self.elts[1])

\* Sexp::cdr: elts[1]
cdr(self) ==
    IF self.tag # "List" THEN NoSexp
    ELSE IF Len(self.elts) < 2 THEN OutOfBounds ELSE Some(self.elts[2])

\* Sexp::primitive_string: Ok(text), or Err(InvalidAtom) as kind "None"
primitive_string(self) ==
    CASE self.tag \in {"Keyword", "String", "Symbol"} ->
            [kind |-> "Some", value |-> self.str]
      [] self.tag \in {"I64", "U64", "F64"} ->
            [kind |-> "Some", value |-> Display(self)]
      [] OTHER -> [kind |-> "None", value |-> <<>>]

\* x.car().unwrap().primitive_string().unwrap(): the text, or a panic
KeyText(x) ==
    IF car(x).kind # "Some" THEN [kind |-> "Panic", value |-> <<>>]
    ELSE IF primitive_string(car(x).value).kind # "Some"
    THEN [kind |-> "Panic", value |-> <<>>]
    ELSE primitive_string(car(x).value)

\* the removal of the idx-th element (from 1)
Without(elts, idx) ==
    [i \in 1..(Len(elts) - 1) |-> IF i < idx THEN elts[i] ELSE elts[i + 1]]

\* elts.iter().position(pred), the elements tried in order up to the first
\* one pred holds of or panics on: an index from 1, 0 for None, -1 for a panic
position(elts, pred(_)) ==
    LET stops == {i \in 1..Len(elts) :
                      pred(elts[i]).kind = "Panic" \/ pred(elts[i]).value}
    IN  IF stops = {} THEN 0
        ELSE LET i == CHOOSE k \in stops : \A j \in stops : k <= j
             IN  IF pred(elts[i]).kind = "Panic" THEN -1 ELSE i

Answer(b) == [kind |-> "Some", value |-> b]

\* Sexp::remove_key(&mut self, other)
remove_key(self, other) ==
    IF self.tag # "List" THEN ListErr("InvalidType(ExpectingList)", self)
    ELSE LET same(x) == IF KeyText(x).kind = "Panic" THEN KeyText(x)
                        ELSE Answer(KeyText(x).value = other)
             idx == position(self.elts, same)
         IN  IF idx = -1 THEN ListPanic
             ELSE IF idx = 0 THEN ListErr("NotFound", self)
             ELSE IF cdr(self.elts[idx]).kind # "Some" THEN ListPanic
             ELSE ListOk(cdr(self.elts[idx]).value,
                         List(Without(self.elts, idx)))

\* Sexp::remove(&mut self, other)
remove(self, other) ==
    IF self.tag # "List" THEN ListErr("InvalidType(ExpectingList)", self)
    ELSE LET same(x) == Answer(x = other)
             idx == position(self.elts, same)
         IN  IF idx = 0 THEN ListErr("NotFound", self)
             ELSE ListOk(self.elts[idx], List(Without(self.elts, idx)))

\* a delq that drops the first occurrence only
delq_first(self, other) ==
    IF remove(self, other).kind = "Ok"
    THEN ListOk(remove(self, other).after, self)
    ELSE IF self.tag = "List" THEN ListOk(self, self)
    ELSE remove(self, other)

\* Sexp::delq(&self, other)
delq(self, other) ==
    IF self.tag # "List" THEN ListErr("InvalidType(ExpectingList)", self)
    ELSE ListOk(List(SelectSeq(self.elts, LAMBDA x : x # other)), self)

\* a search that returns the last match
memq_index_last(self, other) ==
    IF self.tag # "List" THEN ListErr("InvalidType(ExpectingList)", self)
    ELSE LET hits == {i \in 1..Len(self.elts) : self.elts[i] = other}
         IN  IF hits = {} THEN ListErr("NotFound", self)
             ELSE ListResult("Ok", "", Blank,
                             (CHOOSE i \in hits : \A j \in hits : j <= i) - 1, self)

\* Sexp::memq_index(&self, other): Ok(idx), counted from 0
memq_index(self, other) ==
    IF self.tag # "List" THEN ListErr("InvalidType(ExpectingList)", self)
    ELSE LET same(x) == Answer(x = other)
             idx == position(self.elts, same)
         IN  IF idx = 0 THEN ListErr("NotFound", self)
             ELSE ListResult("Ok", "", Blank, idx - 1, self)

\* Sexp::member(&self, pred), pred true of the values in the set holds
member(self, holds) ==
    IF self.tag # "List" THEN ListErr("InvalidType(ExpectingList)", self)
    ELSE LET pred(x) == Answer(x \in holds)
             idx == position(self.elts, pred)
         IN  IF idx = 0 THEN ListErr("NotFound", self)
             ELSE ListOk(self.elts[idx], self)

-----------------------------------------------------------------------------
(* Decoding a Sexp through a visitor (src/src/sexp/de.rs).                 *)
(*                                                                         *)
(* A visitor is the sequence of its takes, one per depth of nesting: how   *)
(* many times visit_seq asks next_element at that depth, ALL for a visitor *)
(* that asks until it is given None.  Past its last take a visitor asks    *)
(* until None.  A visitor that is given None before its take is reached    *)
(* returns an error of its own, as the visitor of a tuple does.            *)

Nil == [Blank EXCEPT !.tag = "Nil"]

ALL == -1

\* Ok(value) of a visit, with the elements the adapter's iterator has left
Visited(method, arg, seq, left) ==
    [kind |-> "Ok", code |-> "", len |-> 0,
     value |-> [method |-> method, arg |-> arg, seq |-> seq], left |-> left]

DeError(code, len) ==
    [kind |-> "Err", code |-> code, len |-> len,
     value |-> [method |-> "", arg |-> Blank, seq |-> <<>>], left |-> 0]

\* unimplemented!()
Unimplemented == [DeError("unimplemented", 0) EXCEPT !.kind = "Panic"]

TakeOf(visitor) == IF visitor = <<>> THEN ALL ELSE Head(visitor)

SeedOf(visitor) == IF visitor = <<>> THEN <<>> ELSE Tail(visitor)

\* what the list branch of deserialize_any returns after visit_seq gave seq
\* for a list of len elements, whatever the iterator has left
unchecked_length(len, seq) == [seq EXCEPT !.left = 0]

\* what the list branch of deserialize_any returns after visit_seq gave seq
\* for a list of len elements
check_length(len, seq) ==
    IF seq.kind # "Ok" THEN seq
    ELSE IF seq.left = 0 THEN seq
    ELSE DeError("invalid_length", len)

RECURSIVE deserialize_any(_, _)
RECURSIVE visit_seq(_, _, _, _)
\* Visitor::visit_seq over a SeqDeserializer whose iterator holds iter:
\* take times next_element_seed, the values so far in acc
visit_seq(iter, take, seed, acc) ==
    IF take = 0 THEN Visited("visit_seq", Blank, acc, Len(iter))
    ELSE IF iter = <<>>
         THEN IF take = ALL THEN Visited("visit_seq", Blank, acc, 0)
              ELSE DeError("visitor: invalid length", Len(acc))
         ELSE LET value == deserialize_any(Head(iter), seed)
              IN  IF value.kind # "Ok" THEN value
                  ELSE visit_seq(Tail(iter),
                                 IF take = ALL THEN ALL ELSE take - 1,
                                 seed, Append(acc, value.value))

\* impl Deserializer for Sexp: deserialize_any(self, visitor)
deserialize_any(self, visitor) ==
    CASE self.tag = "Nil" -> Visited("visit_unit", Blank, <<>>, 0)
      [] self.tag = "Boolean" -> Visited("visit_bool", self, <<>>, 0)
      [] self.tag \in {"I64", "U64", "F64"} ->
             Visited("visit_number", self, <<>>, 0)
      [] self.tag \in {"String", "Keyword", "Symbol"} ->
             Visited("visit_string", String(self.str), <<>>, 0)
      [] self.tag = "Pair" -> Unimplemented
      [] OTHER ->
             check_length(Len(self.elts),
                          visit_seq(self.elts, TakeOf(visitor),
                                    SeedOf(visitor), <<>>))

RECURSIVE deserialize_any_ref(_, _)
RECURSIVE visit_seq_ref(_, _, _, _)
\* Visitor::visit_seq over a SeqRefDeserializer whose iterator holds iter
visit_seq_ref(iter, take, seed, acc) ==
    IF take = 0 THEN Visited("visit_seq", Blank, acc, Len(iter))
    ELSE IF iter = <<>>
         THEN IF take = ALL THEN Visited("visit_seq", Blank, acc, 0)
              ELSE DeError("visitor: invalid length", Len(acc))
         ELSE LET value == deserialize_any_ref(Head(iter), seed)
              IN  IF value.kind # "Ok" THEN value
                  ELSE visit_seq_ref(Tail(iter),
                                     IF take = ALL THEN ALL ELSE take - 1,
                                     seed, Append(acc, value.value))

\* impl Deserializer for &Sexp: deserialize_any(self, visitor); a visitor
\* takes a borrowed str as it takes a String
deserialize_any_ref(self, visitor) ==
    CASE self.tag = "Nil" -> Visited("visit_unit", Blank, <<>>, 0)
      [] self.tag = "Boolean" -> Visited("visit_bool", self, <<>>, 0)
      [] self.tag \in {"I64", "U64", "F64"} ->
             Visited("visit_number", self, <<>>, 0)
      [] self.tag \in {"String", "Keyword", "Symbol"} ->
             Visited("visit_string", String(self.str), <<>>, 0)
      [] self.tag = "Pair" -> Unimplemented
      [] OTHER ->
             check_length(Len(self.elts),
                          visit_seq_ref(self.elts, TakeOf(visitor),
                                        SeedOf(visitor), <<>>))

-----------------------------------------------------------------------------
(* The driver: the texts Sexp::from_str is called on.                      *)
(*                                                                         *)
(* A first call reads a text of one of these families: every short text    *)
(* over Alphabet, what Display writes for a value, a form (the canonical   *)
(* text of a token, a list or a dotted list), a form with one bracket of   *)
(* the other kind, or a proper prefix of a form.  After a form, a second   *)
(* call reads the form with whitespace or a comment inserted between two   *)
(* tokens, or with a list's brackets made square.                          *)

\* the longest text of the first family
MaxLen == 3

\* the most elements in a list of a value or of a form
MaxElts == 2

Alphabet ==
    {"(", ")", "a", "1", ".", SP, ";", LF, QUOTE, BACKSLASH, "#", "x"}

RECURSIVE SeqsUpTo(_, _)
\* the sequences of at most n members of S
SeqsUpTo(S, n) ==
    IF n = 0 THEN {<<>>}
    ELSE LET shorter == SeqsUpTo(S, n - 1)
         IN  shorter \cup {Append(t, c) : t \in {u \in shorter : Len(u) = n - 1},
                                          c \in S}

Strings == SeqsUpTo(Alphabet, MaxLen)

\* the values Display is applied to
Atoms ==
    {Symbol(<<"a">>), Keyword(<<":", "k">>), String(<<"s">>), I64(1), I64(-1),
     U64(1), F64(15, 1), F64(1, 0), Boolean(TRUE), Boolean(FALSE)}

Values ==
    Atoms
    \cup {List(es) : es \in SeqsUpTo(Atoms, MaxElts)}
    \cup {Pair(<<x>>, y) : x \in Atoms, y \in {<<>>} \cup {<<z>> : z \in Atoms}}

DisplayTexts == {Display(v) : v \in Values}

\* a form: a token, a list of forms, or forms, a dot and a last form
Tok(t) == [kind |-> "tok", text |-> t, elts |-> <<>>, tail |-> <<>>]

Lst(es) == [kind |-> "list", text |-> <<>>, elts |-> es, tail |-> <<>>]

Dot(es, y) == [kind |-> "dotted", text |-> <<>>, elts |-> es, tail |-> <<y>>]

RECURSIVE Write(_)
RECURSIVE WriteAll(_)
\* the forms of fs, each after a space
WriteAll(fs) ==
    IF fs = <<>> THEN <<>> ELSE <<SP>> \o Write(Head(fs)) \o WriteAll(Tail(fs))

\* the canonical text of a form: one space between tokens, none at brackets
Write(f) ==
    LET words(fs) == IF fs = <<>> THEN <<>> ELSE Tail(WriteAll(fs))
    IN  CASE f.kind = "tok" -> f.text
          [] f.kind = "list" -> <<"(">> \o words(f.elts) \o <<")">>
          [] f.kind = "dotted" ->
                <<"(">> \o words(f.elts) \o <<SP, ".">>
                        \o WriteAll(f.tail) \o <<")">>

FormTokens ==
    {Tok(<<"a">>), Tok(<<"1">>), Tok(<<"#", "x", "a">>),
     Tok(<<QUOTE, "s", QUOTE>>)}

\* the lists and the pair that occur as elements of a form
Inner ==
    {Lst(<<>>), Lst(<<Tok(<<"b">>)>>), Dot(<<Tok(<<"b">>)>>, Tok(<<"2">>))}

Elements == FormTokens \cup Inner

\* the elements written before the dot of a dotted list of several elements
Heads == {Tok(<<"a">>), Tok(<<"1">>)}

ListForms == {Lst(es) : es \in SeqsUpTo(Elements, MaxElts)}

DottedForms ==
    {Dot(<<x>>, y) : x \in Elements, y \in Elements}
    \cup {Dot(<<x1, x2>>, y) : x1 \in Heads, x2 \in Heads, y \in Elements}

Forms == FormTokens \cup ListForms \cup DottedForms

FormTexts == {Write(f) : f \in Forms}

Brackets == {"(", ")", "[", "]"}

Opening == {"(", "["}

\* the other kind of the same bracket
Square(c) ==
    CASE c = "(" -> "[" [] c = ")" -> "]" [] c = "[" -> "(" [] c = "]" -> ")"

\* t with its i-th character replaced by c
Put(t, i, c) == [t EXCEPT ![i] = c]

\* t with the text w inserted after its first p characters
Insert(t, p, w) == SubSeq(t, 1, p) \o w \o SubSeq(t, p + 1, Len(t))

RECURSIVE Closer(_, _, _)
\* the position of the bracket that closes the one opened before position i,
\* depth brackets deep, in a text whose brackets nest
Closer(t, i, depth) ==
    IF t[i] \in Opening THEN Closer(t, i + 1, depth + 1)
    ELSE IF t[i] \in Brackets THEN
             IF depth = 1 THEN i ELSE Closer(t, i + 1, depth - 1)
    ELSE Closer(t, i + 1, depth)

\* the (opening, closing) positions of the bracket pairs of a form's text
BracketPairs(t) ==
    {<<i, Closer(t, i + 1, 1)>> : i \in {j \in 1..Len(t) : t[j] \in Opening}}

\* a form with one bracket of the other kind: opened round and closed
\* square, or opened square and closed round
Mismatches(t) ==
    UNION {{Put(t, b[1], Square(t[b[1]])), Put(t, b[2], Square(t[b[2]]))} :
               b \in BracketPairs(t)}

MismatchTexts == UNION {Mismatches(t) : t \in FormTexts}

\* the gaps of a form's text, each given by the number of characters before
\* it: the ends of the text, and both sides of every bracket and space
Gaps(t) ==
    {p \in 0..Len(t) :
        \/ p = 0 \/ p = Len(t)
        \/ t[p] \in Brackets \cup {SP}
        \/ t[p + 1] \in Brackets \cup {SP}}

\* the start of a list or dotted-list form, cut between two tokens before
\* the closing bracket of its outermost list
Truncations(t) == {SubSeq(t, 1, n) : n \in Gaps(t) \ {0, Len(t)}}

TruncatedTexts == UNION {Truncations(t) : t \in FormTexts}

\* the most digits of a hex literal
MaxDigits == 2

\* a hex literal: #x, some hex digits, and a whitespace character or ')'
HexDigitSeqs == SeqsUpTo({"0", "1", "9", "a", "c", "F"}, MaxDigits)

HexLiteral(ds, w) == <<"#", "x">> \o ds \o <<w>>

HexTexts == {HexLiteral(ds, w) : ds \in HexDigitSeqs, w \in Whitespace \cup {")"}}

\* the most pieces in the body of a string literal
MaxPieces == 2

\* the pieces of a string literal's body: an ordinary character, one of the
\* escapes parse_string knows, another escaped character, a raw control
\* character
Escapes == {QUOTE, BACKSLASH, "/", "b", "f", "n", "r", "t"}

Pieces ==
    {<<c>> : c \in {"a", ";", ")"}}
        \cup {<<BACKSLASH, e>> : e \in Escapes}
        \cup {<<BACKSLASH, "x">>, <<BACKSLASH, "1">>}
        \cup {<<TAB>>, <<LF>>}

RECURSIVE Flatten(_)
Flatten(ps) == IF ps = <<>> THEN <<>> ELSE Head(ps) \o Flatten(Tail(ps))

StringLiteral(ps) == <<QUOTE>> \o Flatten(ps) \o <<QUOTE>>

StringTexts == {StringLiteral(ps) : ps \in SeqsUpTo(Pieces, MaxPieces)}

\* ("a;b"): a list of one string literal with a semicolon in it
SemicolonText == <<"(", QUOTE, "a", ";", "b", QUOTE, ")">>

\* the most elements of a list given to into_map
MaxAlist == 3

\* the elements of such a list: pairs with a symbol, a number or the empty
\* symbol as car, a pair without car, and a symbol
AlistElements ==
    {Pair(<<Symbol(<<"a">>)>>, <<>>),
     Pair(<<Symbol(<<"a">>)>>, <<Symbol(<<"c">>)>>),
     Pair(<<Symbol(<<"b">>)>>, <<Symbol(<<"c">>)>>),
     Pair(<<I64(1)>>, <<>>),
     Pair(<<U64(1)>>, <<Symbol(<<"c">>)>>),
     Pair(<<Symbol(<<>>)>>, <<Symbol(<<"c">>)>>),
     Pair(<<>>, <<Symbol(<<"c">>)>>),
     Symbol(<<"a">>)}

\* the values into_map is called on
Alists ==
    {List(es) : es \in SeqsUpTo(AlistElements, MaxAlist)}
        \cup {Symbol(<<"a">>), I64(1), Pair(<<Symbol(<<"a">>)>>, <<>>)}

\* the most elements of a list given to deserialize_any
MaxSeq == 2

\* the values deserialize_any is called on: lists of atoms, lists and a pair
SeqElements ==
    {Symbol(<<"a">>), I64(1), Boolean(TRUE), Nil, List(<<>>),
     List(<<Symbol(<<"b">>)>>), List(<<Symbol(<<"b">>), I64(2)>>),
     Pair(<<Symbol(<<"a">>)>>, <<Symbol(<<"b">>)>>)}

DecodeValues == {List(es) : es \in SeqsUpTo(SeqElements, MaxSeq)} \cup SeqElements

\* the visitors: their takes at the first depths of nesting
Visitors == SeqsUpTo((0..MaxSeq) \cup {ALL}, 2)

\* the most elements of a list given to a list utility
MaxList == 3

\* the elements of such a list: atoms, a number, the empty list, sub-lists of
\* one and two elements, and a sub-list whose first item is a list
UtilElements ==
    {Symbol(<<"a">>), Symbol(<<"b">>), I64(1), List(<<>>),
     List(<<Symbol(<<"a">>)>>), List(<<Symbol(<<"a">>), Symbol(<<"c">>)>>),
     List(<<List(<<>>), Symbol(<<"c">>)>>)}

\* the values a list utility is called on
UtilLists ==
    {List(es) : es \in SeqsUpTo(UtilElements, MaxList)}
        \cup {Symbol(<<"a">>), I64(1), Pair(<<Symbol(<<"a">>)>>, <<>>)}

\* the values searched for or removed
Others == UtilElements \cup {Symbol(<<"x">>)}

\* the keys given to remove_key
KeyTexts == {<<"a">>, <<"1">>, <<"x">>}

\* the predicates given to member, each as the set of values it holds of
Predicates ==
    {{}, {Symbol(<<"b">>)}, {Symbol(<<"a">>), I64(1)},
     {v \in UtilElements : v.tag = "List"}, UtilElements}

\* the values given to new_pair as car and as cdr
PairParts ==
    SeqElements
        \cup {String(<<>>), Keyword(<<"k">>), U64(0), F64(15, 1),
              Pair(<<>>, <<>>), Pair(<<List(<<>>)>>, <<>>),
              List(<<List(<<>>)>>)}

\* the most bytes of a string given to escape_str
MaxBytes == 2

\* the strings escape_str is applied to
ByteStrings ==
    SeqsUpTo({"a", SP, QUOTE, BACKSLASH, NUL, SOH, BS, TAB, LF, FF, CR, DEL},
             MaxBytes)

EscapedTexts == {escape_str(v) : v \in ByteStrings}

\* the most items, entries or fields of a compound value given to to_string
MaxItems == 2

\* n as u64, for an n below 2^31
OfNat(n) == <<0, 0, n \div LimbBase, n % LimbBase>>

\* -n as i64, for an n from 1 to 2^31 - 1
OfNeg(n) ==
    Increment([i \in 1..Limbs |-> LimbBase - 1 - OfNat(n)[i]], Limbs)

U64_MAX == [i \in 1..Limbs |-> LimbBase - 1]

I64_MAX == [U64_MAX EXCEPT ![1] = LimbBase \div 2 - 1]

I64_MIN == [ZeroLimbs EXCEPT ![1] = LimbBase \div 2]

U64s ==
    {OfNat(n) : n \in {0, 3, 9, 10, 99, 100, 1234, 65535, 65536, 655360}}
        \cup {U64_MAX, I64_MAX, I64_MIN}

I64s ==
    {OfNat(n) : n \in {0, 3, 10, 65536}}
        \cup {OfNeg(n) : n \in {1, 2, 9, 10, 1234, 65535, 65536, 65537}}
        \cup {I64_MAX, I64_MIN}

\* the scalars: booleans, integers and strings
Scalars ==
    {TBool(b) : b \in BOOLEAN} \cup {TU64(n) : n \in U64s}
        \cup {TI64(n) : n \in I64s} \cup {TStr(v) : v \in ByteStrings}

\* the values at the leaves of a compound value
Leaves == {TBool(TRUE), TU64(OfNat(3)), TStr(<<"a">>), TUnit, Failing}

\* the keys of a map and the field names of a struct
MapKeys == {TStr(<<"a">>), TU64(OfNat(1)), Failing}

FieldNames == {<<"a">>, <<"b">>}

\* the compound values with at most n items drawn from S
Compounds(S, n) ==
    {TSeq(items) : items \in SeqsUpTo(S, n)}
        \cup {TMap(entries) : entries \in SeqsUpTo(MapKeys \X S, n)}
        \cup {TStruct(<<"s">>, fields) : fields \in SeqsUpTo(FieldNames \X S, n)}
        \cup {TStructVariant(<<"v">>, fields) :
                  fields \in SeqsUpTo(FieldNames \X S, n)}
        \cup {TTupleStruct(<<"s">>, items) : items \in SeqsUpTo(S, n)}
        \cup {TTupleVariant(<<"v">>, items) : items \in SeqsUpTo(S, n)}
        \cup {TNewtypeVariant(<<"v">>, value) : value \in S}
        \cup {TUnitVariant(<<"v">>)}

\* the values given to to_value: scalars, and the sequences, tuple structs and
\* unit variants over them, one inside the other
TreeLeaves == Leaves \cup {TUnitVariant(<<"v">>), TI64(OfNeg(2))}

Sequences(S, n) ==
    {TSeq(items) : items \in SeqsUpTo(S, n)}
        \cup {TTupleStruct(<<"s">>, items) : items \in SeqsUpTo(S, n)}

Encodables ==
    Scalars \cup TreeLeaves \cup Sequences(TreeLeaves, MaxItems)
        \cup Sequences(Sequences(TreeLeaves, MaxItems - 1), MaxItems)

\* the values given to to_string: scalars, compounds of leaves, and compounds
\* of one compound of leaves
Serializables ==
    Scalars \cup Leaves \cup Compounds(Leaves, MaxItems)
        \cup Compounds(Compounds(Leaves, MaxItems - 1), 1)

\* the integers and floats a Number is built from
NegativeI64s ==
    {OfNeg(n) : n \in {1, 2, 1234, 65535, 65536, 65537}} \cup {I64_MIN}

NonNegativeI64s == {OfNat(n) : n \in {0, 1, 3, 65535, 65536}} \cup {I64_MAX}

\* i8 values, widened by `i as i64` and `i as u64`
NarrowInts == {-128, -1, 0, 1, 127}

SmallU64s == {OfNat(n) : n \in {0, 1, 3, 65535, 65536, 655360}} \cup {I64_MAX}

\* the u64 above i64::MAX: 2^63, 2^63 + 1, 2^64 - 2, u64::MAX
LargeU64s ==
    {I64_MIN, [I64_MIN EXCEPT ![Limbs] = 1],
     [U64_MAX EXCEPT ![Limbs] = LimbBase - 2], U64_MAX}

Floats ==
    {Finite(m, e) : m \in {-15, -3, 0, 3, 5, 15, 31}, e \in {0, 1}}
        \cup {NaN, Infinity(1), Infinity(-1)}

\* an input: a 64-bit integer x, an i8 i or a float f
NumberInput(from, x, i, f) == [from |-> from, x |-> x, i |-> i, f |-> f]

NumberInputs ==
    {NumberInput("i64", x, 0, NaN) : x \in NegativeI64s \cup NonNegativeI64s}
        \cup {NumberInput("i8", <<>>, i, NaN) : i \in NarrowInts}
        \cup {NumberInput("u64", x, 0, NaN) : x \in SmallU64s \cup LargeU64s}
        \cup {NumberInput("f64", <<>>, 0, f) : f \in Floats}

\* Number::from(x) or Number::from_f64(x)
Build(input) ==
    CASE input.from = "i64" -> from_signed(input.x)
      [] input.from = "i8" -> from_signed(Widen(input.i))
      [] input.from = "u64" -> from_unsigned(input.x)
      [] input.from = "f64" -> from_f64(input.f)

\* numeric tokens: a digit or '-' and then at most MaxDigits digits and dots
ShortTokens ==
    {<<c>> \o t : c \in {"-", "1", "7"}, t \in SeqsUpTo({"0", "5", "."}, MaxDigits)}

\* i64::MAX, i64::MAX + 1, i64::MIN, i64::MIN - 1, 2^64 and twenty nines
LongTokens ==
    {<<"9", "2", "2", "3", "3", "7", "2", "0", "3", "6", "8", "5", "4", "7",
       "7", "5", "8", "0", "7">>,
     <<"9", "2", "2", "3", "3", "7", "2", "0", "3", "6", "8", "5", "4", "7",
       "7", "5", "8", "0", "8">>,
     <<"-", "9", "2", "2", "3", "3", "7", "2", "0", "3", "6", "8", "5", "4",
       "7", "7", "5", "8", "0", "8">>,
     <<"-", "9", "2", "2", "3", "3", "7", "2", "0", "3", "6", "8", "5", "4",
       "7", "7", "5", "8", "0", "9">>,
     <<"1", "8", "4", "4", "6", "7", "4", "4", "0", "7", "3", "7", "0", "9",
       "5", "5", "1", "6", "1", "6">>,
     [i \in 1..20 |-> "9"]}

NumericTokens == ShortTokens \cup LongTokens

\* a numeric token before a whitespace, inside a list, or at the end of input
NumericText(token, ending) ==
    IF ending = ")" THEN <<"(">> \o token \o <<")">>
    ELSE IF ending = None THEN token
    ELSE token \o <<ending>>

Endings == Whitespace \cup {")", None}

NumericTexts == {NumericText(t, w) : t \in NumericTokens, w \in Endings}

Inputs ==
    Strings \cup DisplayTexts \cup FormTexts \cup MismatchTexts
        \cup TruncatedTexts \cup HexTexts \cup StringTexts \cup EscapedTexts
        \cup NumericTexts \cup {SemicolonText}

\* the bracket pair <<i, j>> holds a dot of its own: it is a dotted list
IsDotted(t, b) ==
    \E q \in (b[1] + 1)..(b[2] - 1) :
        /\ t[q] = "." /\ t[q - 1] = SP /\ t[q + 1] = SP
        /\ \A c \in BracketPairs(t) :
               (b[1] < c[1] /\ c[2] < b[2]) => ~(c[1] < q /\ q < c[2])

\* the gaps next to the elements of a list: after its opening bracket,
\* between two elements, before its closing bracket.  The innermost bracket
\* pair around such a gap is a list, not a dotted list.
ListGaps(t) ==
    {p \in Gaps(t) :
        \E b \in BracketPairs(t) :
            /\ b[1] <= p /\ p < b[2]
            /\ ~IsDotted(t, b)
            /\ \A c \in BracketPairs(t) :
                   (c[1] <= p /\ p < c[2]) => c[1] <= b[1]}

\* newline-terminated line comments, with one or more leading semicolons
Comments == {<<";", LF>>, <<";", ";", SP, "c", ";", LF>>}

WhitespaceEdits(t) == {Insert(t, p, <<w>>) : p \in Gaps(t), w \in Whitespace}

CommentEdits(t) == {Insert(t, p, c) : p \in ListGaps(t), c \in Comments}

\* one list's round brackets replaced by square ones
BracketEdits(t) ==
    {Put(Put(t, b[1], "["), b[2], "]") : b \in BracketPairs(t)}

Edits(t) == WhitespaceEdits(t) \cup CommentEdits(t) \cup BracketEdits(t)

Done == outcome.kind \in {"Ok", "Err", "Panic"}

Init ==
    /\ src = <<>>
    /\ reader = <<>>
    /\ ch = None
    /\ line = 1
    /\ col = 0
    /\ config = STANDARD
    /\ stack = <<>>
    /\ ret = <<>>
    /\ outcome = Idle
    /\ prev = <<>>
    /\ calls = 0
    /\ op = NoCall

first_call == calls = 0 /\ \E s \in Inputs : from_str(s)

second_call ==
    /\ calls = 1 /\ outcome.kind \in {"Ok", "Err"} /\ src \in FormTexts
    /\ \E s \in Edits(src) : from_str(s)

Next ==
    \/ first_call
    \/ second_call
    \/ parse_comment
    \/ parse_whitespace
    \/ parse_value
    \/ parse_symbol
    \/ parse_string
    \/ parse_numeric
    \/ parse_hexadecimal
    \/ parse_list

Spec == Init /\ [][Next]_vars

\* the configuration with the square brackets off
NO_SQUARE == [STANDARD EXCEPT !.square_brackets = FALSE]

Configs == {STANDARD, NO_SQUARE}

AB == <<"(", "a", SP, "b", ")">>

\* atoms that end at a blank, at ')' and at the end of the input
BareAtoms == {<<"a">>, <<"a", SP, "b">>, <<"a", ")">>, <<"a", LF>>}

ConfigInputs ==
    {AB} \cup BareAtoms
        \cup {<<"[", "a", "]">>, <<"(", "a", "]">>, <<QUOTE, "s", QUOTE>>,
              <<"1", "2">>, <<"#", "6", "1", "#">>, <<":", "k">>,
              <<";", "c", LF, "a">>, <<SP, "(", ")">>}

configured_call ==
    /\ calls = 0
    /\ \E s \in ConfigInputs : \E cfg \in Configs : parse_with(s, cfg)

ConfigNext ==
    \/ configured_call
    \/ parse_comment
    \/ parse_whitespace
    \/ parse_value
    \/ parse_symbol
    \/ parse_string
    \/ parse_numeric
    \/ parse_hexadecimal
    \/ parse_list

\* one parse under either setting of square_brackets
ConfigSpec == Init /\ [][ConfigNext]_vars

\* self.into_map() on a value
call_into_map ==
    /\ op = NoCall
    /\ \E v \in Alists : Apply("into_map", v, into_map(v))

\* self.deserialize_any(visitor) on a value and on a reference to it; seq is
\* what the visitor's visit_seq returns on a list
call_deserialize_any ==
    /\ op = NoCall
    /\ \E v \in DecodeValues : \E visitor \in Visitors :
        Apply("deserialize_any",
              [self |-> v, visitor |-> visitor,
               seq |-> IF v.tag = "List"
                       THEN visit_seq(v.elts, TakeOf(visitor),
                                      SeedOf(visitor), <<>>)
                       ELSE DeError("", 0)],
              [owned |-> deserialize_any(v, visitor),
               borrowed |-> deserialize_any_ref(v, visitor)])

\* to_string(&value)
call_to_string ==
    /\ op = NoCall
    /\ \E v \in Serializables : Apply("to_string", v, to_string(v))

\* to_string(&value), and to_string(&to_value(&value)) as test_encode_ok
\* makes it
call_to_value ==
    /\ op = NoCall
    /\ \E v \in Encodables :
        Apply("to_value", v,
              [direct |-> to_string(v), tree |-> to_value(v),
               via |-> IF to_value(v).kind = "Ok"
                       THEN sexp_to_string(to_value(v).value)
                       ELSE to_value(v)])

\* Sexp::new_pair(&car, &cdr)
call_new_pair ==
    /\ op = NoCall
    /\ \E a \in PairParts : \E d \in PairParts :
        Apply("new_pair", [car |-> a, cdr |-> d], new_pair(a, d))

\* a Number is built and asked is_i64, is_u64 and is_f64
call_number ==
    /\ op = NoCall
    /\ \E input \in NumberInputs :
        Apply("number", input,
              LET n == Build(input)
              IN  IF n = NoNumber
                  THEN [number |-> n, is_i64 |-> FALSE, is_u64 |-> FALSE,
                        is_f64 |-> FALSE]
                  ELSE [number |-> n, is_i64 |-> is_i64(n), is_u64 |-> is_u64(n),
                        is_f64 |-> is_f64(n)])

call_remove_key ==
    /\ op = NoCall
    /\ \E self \in UtilLists : \E other \in KeyTexts :
        Apply("remove_key", [self |-> self, key |-> other],
              remove_key(self, other))

call_remove ==
    /\ op = NoCall
    /\ \E self \in UtilLists : \E other \in Others :
        Apply("remove", [self |-> self, other |-> other], remove(self, other))

call_delq ==
    /\ op = NoCall
    /\ \E self \in UtilLists : \E other \in Others :
        Apply("delq", [self |-> self, other |-> other], delq(self, other))

call_memq_index ==
    /\ op = NoCall
    /\ \E self \in UtilLists : \E other \in Others :
        Apply("memq_index", [self |-> self, other |-> other],
              memq_index(self, other))

call_member ==
    /\ op = NoCall
    /\ \E self \in UtilLists : \E holds \in Predicates :
        Apply("member", [self |-> self, holds |-> holds], member(self, holds))

\* the most fields of a tuple read by read_tuple
MaxTuple == 3

\* the lists a tuple is read from, and two values that are no list
TupleValues ==
    {List(es) : es \in SeqsUpTo({Symbol(<<"a">>), Symbol(<<"b">>), List(<<>>)},
                                MaxTuple)}
        \cup {Symbol(<<"a">>), String(<<"a">>)}

\* the stack of a new Decoder, the stack inside the read of an enclosing
\* value, and the empty stack left when everything has been read
DecoderStacks ==
    {Decoder_new(v) : v \in TupleValues}
        \cup {<<Symbol(<<"c">>)>> \o Decoder_new(v) : v \in TupleValues}
        \cup {<<>>}

\* d.read_tuple(tuple_len, f) on a Decoder
call_read_tuple ==
    /\ op = NoCall
    /\ \E stk \in DecoderStacks : \E tuple_len \in 0..MaxTuple :
        Apply("read_tuple", [stack |-> stk, tuple_len |-> tuple_len],
              read_tuple(stk, tuple_len))

LibNext ==
    \/ call_read_tuple
    \/ call_into_map
    \/ call_deserialize_any
    \/ call_to_string
    \/ call_to_value
    \/ call_new_pair
    \/ call_number
    \/ call_remove_key
    \/ call_remove
    \/ call_delq
    \/ call_memq_index
    \/ call_member

\* the library calls, each on a fresh library
LibSpec == Init /\ [][LibNext]_vars

\* a running call is not left unfinished: the thread keeps executing
FairSpec == Spec /\ WF_vars(Next)

-----------------------------------------------------------------------------
(* The claims of the specification, each as a formula over the model.      *)

\* the outcome of the call before the running one, and the text it read
Before == prev[1]

\* the first call has returned
FirstDone == calls = 1 /\ Done

\* the second call has returned, after a first call that returned Ok
SecondDone == calls = 2 /\ Done /\ Before.outcome.kind = "Ok"

\* C1: parsing what Display writes for a value gives that value back:
\* booleans, keywords, strings, numbers, lists and pairs with an absent cdr
C1_RoundTrip ==
    FirstDone => \A v \in Values : src = Display(v) => outcome = Ok(v)

\* the forms written with symbols, integer literals, round lists and dotted
\* pairs (x . y) only
RECURSIVE IsPlain(_)
IsPlain(f) ==
    CASE f.kind = "tok" -> f.text \in {<<"a">>, <<"b">>, <<"1">>, <<"2">>}
      [] f.kind = "list" -> \A i \in DOMAIN f.elts : IsPlain(f.elts[i])
      [] OTHER -> /\ Len(f.elts) = 1
                  /\ IsPlain(f.elts[1])
                  /\ IsPlain(f.tail[1])

PlainTexts == {Write(f) : f \in {g \in Forms : IsPlain(g)}}

\* C2: a text in canonical form (symbols, integers, round lists separated
\* by one space, dotted pairs) parses, and Display of the result is the text
C2_Redisplay ==
    (FirstDone /\ src \in PlainTexts)
        => outcome.kind = "Ok" /\ Display(outcome.val) = src

\* C3: from_str returns Ok or Err on every text: no call panics
C3_Total == outcome.kind # "Panic"

\* C4: every call of from_str comes to an end
C4_Terminates == (outcome.kind = "Running") ~> Done

\* C5: a list, proper or dotted, closed by the bracket of the other kind is
\* rejected with UnbalancedClosingParen
C5_Mismatch ==
    (FirstDone /\ src \in MismatchTexts)
        => outcome.kind = "Err" /\ outcome.code = "UnbalancedClosingParen"

\* C6: a text that ends before a list's closing bracket is rejected with
\* EOFWhileParsingList
C6_Unterminated ==
    (FirstDone /\ src \in TruncatedTexts)
        => outcome.kind = "Err" /\ outcome.code = "EOFWhileParsingList"

\* the step returns the value v: to the caller's frame, or out of from_str
Returns(v) ==
    IF Tail(stack) = <<>> THEN outcome' = Ok(v) ELSE ret' = <<v>>

\* C7: a list of k >= 1 elements, a dot, one value y and the close bracket
\* is the pair new_pair(x, y), x being the element before the dot: x is its
\* car and y is in its cdr slot
C7_DottedPair ==
    [][(/\ stack # <<>> /\ Top.fn = "parse_list" /\ Top.pc = "new_pair"
        /\ Len(Top.result) >= 2)
          => LET n == Len(Top.result)
             IN  Returns(new_pair(Top.result[n - 1], Top.result[n]))]_vars

\* C8: a space, tab, carriage return or line feed between two tokens, or
\* around the text, changes nothing of the result
C8_Whitespace ==
    (SecondDone /\ src \in WhitespaceEdits(Before.src))
        => outcome = Before.outcome

\* C9: a newline-terminated comment before, between or after the elements
\* of a list changes nothing of the result
C9_Comments ==
    (SecondDone /\ src \in CommentEdits(Before.src))
        => outcome = Before.outcome

\* a list of two elements read again with a comment among its elements
C9_Witness ==
    /\ SecondDone /\ src \in CommentEdits(Before.src)
    /\ outcome.kind = "Ok" /\ outcome.val.tag = "List"
    /\ Len(outcome.val.elts) = 2

\* C10: a list written with square brackets parses to what the same list
\* with round brackets parses to
C10_SquareBrackets ==
    (SecondDone /\ src \in BracketEdits(Before.src))
        => outcome = Before.outcome

\* the lists of one or more booleans
BooleanLists ==
    {List(es) : es \in SeqsUpTo({Boolean(TRUE), Boolean(FALSE)}, MaxElts)
                          \ {<<>>}}

\* C11: under STANDARD, #t and #f as elements of a list parse to
\* Boolean(true) and Boolean(false): what Display writes for a list of
\* booleans reads back as that list
C11_Booleans ==
    FirstDone => \A v \in BooleanLists : src = Display(v) => outcome = Ok(v)

\* the value of a hex digit
HexValue(c) ==
    LET lower == <<"0", "1", "2", "3", "4", "5", "6", "7", "8", "9",
                   "a", "b", "c", "d", "e", "f">>
        upper == <<"0", "1", "2", "3", "4", "5", "6", "7", "8", "9",
                   "A", "B", "C", "D", "E", "F">>
    IN  (CHOOSE i \in 1..16 : lower[i] = c \/ upper[i] = c) - 1

\* acc := acc * 10 + value(d) over the digits ds, from acc
RECURSIVE Fold10(_, _)
Fold10(acc, ds) ==
    IF ds = <<>> THEN acc ELSE Fold10(acc * 10 + HexValue(Head(ds)), Tail(ds))

\* C12: #x, n >= 1 hex digits and then whitespace or ')' is the unsigned
\* number folded from the digits by acc * 10 + value(d); #x with no digit
\* before the whitespace or ')' is UnexpectedEndOfHexEscape
C12_HexLiteral ==
    FirstDone =>
        \A ds \in HexDigitSeqs : \A w \in Whitespace \cup {")"} :
            src = HexLiteral(ds, w) =>
                IF ds = <<>>
                THEN outcome.kind = "Err"
                         /\ outcome.code = "UnexpectedEndOfHexEscape"
                ELSE outcome = Ok(U64(Fold10(0, ds)))

\* the character an escape stands for
Unescaped(e) ==
    CASE e = "b" -> BS [] e = "f" -> FF [] e = "n" -> LF [] e = "r" -> CR
      [] e = "t" -> TAB [] OTHER -> e

\* what a string literal with the pieces ps is to give: the text of the
\* pieces before it in acc
RECURSIVE Decoded(_, _)
Decoded(acc, ps) ==
    IF ps = <<>> THEN Ok(String(acc))
    ELSE LET p == Head(ps)
         IN  CASE Len(p) = 2 /\ p[2] \in Escapes ->
                      Decoded(Append(acc, Unescaped(p[2])), Tail(ps))
               [] Len(p) = 2 -> SyntaxError("InvalidEscape", 0, 0)
               [] p[1] \in ControlChars ->
                      SyntaxError("ControlCharacterInString", 0, 0)
               [] OTHER -> Decoded(Append(acc, p[1]), Tail(ps))

\* the outcome is the expected one, wherever an error is reported
Agrees(expected) ==
    /\ outcome.kind = expected.kind
    /\ outcome.code = expected.code
    /\ outcome.val = expected.val

\* C13: a string literal of ordinary characters and the escapes \" \\ \/ \b
\* \f \n \r \t is read as a String of its text with every escape replaced
\* by its character; another escaped character is InvalidEscape and a raw
\* character <= 0x1F is ControlCharacterInString
C13_StringLiteral ==
    (calls = 1 /\ src \in StringTexts)
        ~> (Done /\ \A ps \in SeqsUpTo(Pieces, MaxPieces) :
                        src = StringLiteral(ps) => Agrees(Decoded(<<>>, ps)))

\* C14: what escape_str writes for a string, control bytes and 0x7f
\* included, is read by the parser as that string
C14_EscapesAccepted ==
    FirstDone =>
        \A v \in ByteStrings : src = escape_str(v) => outcome = Ok(String(v))

\* the key of an element of an alist: the text of its car
KeyOf(e) == Display(e.car[1])

\* an element is a pair with a present car
IsEntry(e) == e.tag = "Pair" /\ e.car # <<>>

\* an element is a pair with a present car whose text is not empty
IsKeyed(e) == IsEntry(e) /\ KeyOf(e) # <<>>

\* what into_map is to give on v when Good tells the well-formed elements:
\* the error of the first element that is not Good or repeats a key, else
\* the map from every key to the cdr slot of its element
Mapped(v, Good(_)) ==
    IF v.tag # "List" THEN IntoAlistError("ContainerSexpNotList")
    ELSE LET es == v.elts
             offends(i) ==
                 \/ ~Good(es[i])
                 \/ \E j \in 1..(i - 1) :
                        Good(es[j]) /\ KeyOf(es[j]) = KeyOf(es[i])
             first == CHOOSE i \in DOMAIN es :
                          /\ offends(i)
                          /\ \A j \in 1..(i - 1) : ~offends(j)
             entry(k) == CHOOSE i \in DOMAIN es : KeyOf(es[i]) = k
         IN  IF \E i \in DOMAIN es : offends(i)
             THEN IF Good(es[first])
                  THEN IntoAlistError("DuplicateKey")
                  ELSE IntoAlistError("KeyValueMustBePair")
             ELSE OkMap([k \in {KeyOf(es[i]) : i \in DOMAIN es}
                            |-> es[entry(k)].cdr])

RECURSIVE Fails(_)
\* serializing v, or a sub-value of v at any depth, returns an error
Fails(v) ==
    CASE v.ty = "failing" -> TRUE
      [] v.ty \in {"seq", "tuple_struct", "tuple_variant", "newtype_variant"} ->
            \E i \in 1..Len(v.items) : Fails(v.items[i])
      [] v.ty = "map" ->
            \E i \in 1..Len(v.entries) :
                Fails(v.entries[i][1]) \/ Fails(v.entries[i][2])
      [] v.ty \in {"struct", "struct_variant"} ->
            \E i \in 1..Len(v.fields) : Fails(v.fields[i][2])
      [] OTHER -> FALSE

\* C17: when serializing a sub-value (a sequence element, a map key, a map
\* value, a struct field or a struct-variant field) returns an error, to_string
\* returns that error and never Ok with an output.
C17_NoRecovery ==
    (op.name = "to_string" /\ Fails(op.arg)) => op.result = SerError


\* C18: the text path and the tree path agree: to_string(v) is
\* to_string(to_value(v)) for every serializable v.
C18_PathsAgree == op.name = "to_value" => op.result.via = op.result.direct


\* ds is the decimal numeral of n: digits, no leading zero, value n
IsDecimal(ds, n) ==
    /\ ds # <<>>
    /\ \A i \in 1..Len(ds) : ds[i] \in Digits
    /\ Len(ds) > 1 => ds[1] # "0"
    /\ FromDecimal(ZeroLimbs, ds) = n

\* ds is the decimal numeral of the i64 n, "-" leading a negative one
IsSigned(ds, n) ==
    IF n[1] >= LimbBase \div 2
    THEN /\ Len(ds) > 1
         /\ ds[1] = "-"
         /\ \E m \in {FromDecimal(ZeroLimbs, Tail(ds))} :
               /\ m # <<>>
               /\ IsDecimal(Tail(ds), m)
               /\ Increment([i \in 1..Limbs |-> LimbBase - 1 - m[i]], Limbs) = n
    ELSE IsDecimal(ds, n)

\* the codepoints of the bytes that have no named escape
ByteCode == (NUL :> 0) @@ (SOH :> 1) @@ (DEL :> 127)

HexChar(d) ==
    IF d < 10 THEN DigitChar(d)
    ELSE CASE d = 10 -> "a" [] d = 11 -> "b" [] d = 12 -> "c"
           [] d = 13 -> "d" [] d = 14 -> "e" [] d = 15 -> "f"

NamedEscapes ==
    (QUOTE :> QUOTE) @@ (BACKSLASH :> BACKSLASH) @@ (BS :> "b") @@ (TAB :> "t")
        @@ (LF :> "n") @@ (FF :> "f") @@ (CR :> "r")

\* a byte as it stands inside the quotes: a named escape, \u00XX for another
\* control byte, the byte itself otherwise
InQuotes(byte) ==
    IF byte \in DOMAIN NamedEscapes THEN <<BACKSLASH, NamedEscapes[byte]>>
    ELSE IF byte \in DOMAIN ByteCode
    THEN <<BACKSLASH, "u", "0", "0", HexChar(ByteCode[byte] \div 16),
           HexChar(ByteCode[byte] % 16)>>
    ELSE <<byte>>

RECURSIVE Quoted(_)
Quoted(text) == IF text = <<>> THEN <<>> ELSE InQuotes(Head(text)) \o Quoted(Tail(text))

IsScalar(v) == v.ty \in {"bool", "u64", "i64", "str"}

\* the rendering of the booleans and the integers
RendersNumber(v, text) ==
    /\ v.ty = "bool" => text = (IF v.b THEN <<"#", "t">> ELSE <<"#", "f">>)
    /\ v.ty = "u64" => IsDecimal(text, v.n)
    /\ v.ty = "i64" => IsSigned(text, v.n)
    /\ v = TU64(U64_MAX) =>
          text = <<"1", "8", "4", "4", "6", "7", "4", "4", "0", "7", "3", "7",
                   "0", "9", "5", "5", "1", "6", "1", "5">>

C20_NewPair ==
    op.name = "new_pair" =>
        LET empty == op.arg.cdr.tag = "List" /\ op.arg.cdr.elts = <<>>
        IN  /\ op.result.tag = "Pair"
            /\ Len(op.result.car) = 1
            /\ op.result.car[1] = op.arg.car
            /\ empty => op.result.cdr = <<>>
            /\ ~empty => op.result.cdr = <<op.arg.cdr>>
            /\ [op.result EXCEPT !.car = <<>>, !.cdr = <<>>] = Pair(<<>>, <<>>)

C20_Witness ==
    /\ op.name = "new_pair"
    /\ op.arg.car = List(<<>>)
    /\ op.arg.cdr = List(<<>>)
    /\ op.result = Pair(<<List(<<>>)>>, <<>>)


\* the input of a Number is a negative integer, a non-negative one, one that
\* an i64 can hold
NegativeInput(input) ==
    \/ input.from = "i64" /\ input.x \in NegativeI64s
    \/ input.from = "i8" /\ input.i < 0

NonNegativeInput(input) ==
    \/ input.from = "i64" /\ input.x \in NonNegativeI64s
    \/ input.from = "i8" /\ input.i >= 0
    \/ input.from = "u64"

FitsI64(input) ==
    \/ input.from \in {"i64", "i8"}
    \/ input.from = "u64" /\ input.x \in SmallU64s

\* C21: a Number from a signed integer holds the signed arm iff the integer is
\* negative, one from an unsigned integer the unsigned arm; from_f64 gives a
\* Number only for a finite float.  is_u64 is true iff the value is a
\* non-negative integer, is_i64 iff it is an integer an i64 can hold, is_f64
\* iff both are false.
C21_Number ==
    op.name = "number" =>
        LET input == op.arg
            n == op.result.number
        IN  /\ input.from \in {"i64", "i8"} =>
                  /\ n.arm = "I64" <=> NegativeInput(input)
                  /\ n.arm = "U64" <=> NonNegativeInput(input)
            /\ input.from = "i64" => n.v = input.x
            /\ input.from = "i8" /\ input.i = -128 =>
                  n.v = <<LimbBase - 1, LimbBase - 1, LimbBase - 1, LimbBase - 128>>
            /\ input.from = "u64" => n = NumberOf("U64", input.x)
            /\ input.from = "f64" =>
                  IF input.f \in {NaN, Infinity(1), Infinity(-1)}
                  THEN n = NoNumber
                  ELSE n = NumberOf("F64", input.f)
            /\ n # NoNumber =>
                  /\ op.result.is_u64 <=> NonNegativeInput(input)
                  /\ op.result.is_i64 <=> FitsI64(input)
                  /\ op.result.is_f64 <=> (~op.result.is_i64 /\ ~op.result.is_u64)

C21_Witness ==
    /\ op.name = "number"
    /\ op.arg.from = "u64"
    /\ op.arg.x = I64_MIN
    /\ op.result.is_u64
    /\ ~op.result.is_i64
    /\ ~op.result.is_f64


ListUtilities == {"delq", "member", "memq_index", "remove", "remove_key"}

\* C22: each of delq, member, memq_index, remove and remove_key returns
\* Err(InvalidType(ExpectingList)) when self is not a List, and Ok or
\* Err(NotFound) when it is one, whatever the list holds; none of them aborts.
C22_TypedErrors ==
    op.name \in ListUtilities =>
        IF op.arg.self.tag # "List"
        THEN op.result.kind = "Err" /\ op.result.code = "InvalidType(ExpectingList)"
        ELSE \/ op.result.kind = "Ok"
             \/ op.result.kind = "Err" /\ op.result.code = "NotFound"


\* the indexes of the elements of elts that differ from x
Kept(elts, x) == {i \in 1..Len(elts) : elts[i] # x}

\* the k-th smallest member of a set of indexes
Nth(S, k) == CHOOSE i \in S : Cardinality({j \in S : j <= i}) = k

\* C23: l.delq(x) is a new List of exactly the elements of l that differ from
\* x, in their order in l, and l is left as it was.
C23_Delq ==
    (op.name = "delq" /\ op.arg.self.tag = "List") =>
        LET l == op.arg.self.elts
            keep == Kept(l, op.arg.other)
        IN  /\ op.result.kind = "Ok"
            /\ op.result.value.tag = "List"
            /\ Len(op.result.value.elts) = Cardinality(keep)
            /\ \A k \in 1..Cardinality(keep) :
                   op.result.value.elts[k] = l[Nth(keep, k)]
            /\ op.result.after = op.arg.self

C23_Witness ==
    /\ op.name = "delq"
    /\ op.arg.other = Symbol(<<"a">>)
    /\ op.arg.self = List(<<Symbol(<<"a">>), Symbol(<<"b">>), Symbol(<<"a">>)>>)
    /\ op.result.value = List(<<Symbol(<<"b">>)>>)

\* C24: l.memq_index(x) is Ok(i) with i the smallest index of an element equal
\* to x, and Err(NotFound) exactly when there is none; member(pred) is the
\* first element pred holds of, or Err(NotFound).
C24_Search ==
    /\ (op.name = "memq_index" /\ op.arg.self.tag = "List") =>
          LET l == op.arg.self.elts
              hits == {i \in 1..Len(l) : l[i] = op.arg.other}
          IN  /\ hits = {} <=>
                     (op.result.kind = "Err" /\ op.result.code = "NotFound")
              /\ hits # {} =>
                     /\ op.result.kind = "Ok"
                     /\ op.result.index + 1 \in hits
                     /\ \A j \in hits : op.result.index + 1 <= j
    /\ (op.name = "member" /\ op.arg.self.tag = "List") =>
          LET l == op.arg.self.elts
              hits == {i \in 1..Len(l) : l[i] \in op.arg.holds}
          IN  /\ hits = {} <=>
                     (op.result.kind = "Err" /\ op.result.code = "NotFound")
              /\ hits # {} =>
                     /\ op.result.kind = "Ok"
                     /\ \E i \in hits : /\ op.result.value = l[i]
                                        /\ \A j \in hits : i <= j

C24_Witness ==
    /\ op.name = "memq_index"
    /\ op.arg.other = Symbol(<<"a">>)
    /\ op.arg.self = List(<<I64(1), Symbol(<<"a">>), Symbol(<<"a">>)>>)
    /\ op.result.kind = "Ok"
    /\ op.result.index = 1


\* the number of dots and the digits of a token
Dots(token) == Len(SelectSeq(token, IsDot))

DigitsOf(token) == SelectSeq(token, IsDigit)

\* the digits after the dot of a token with one dot
Fraction(token) ==
    Len(token) - (CHOOSE i \in 1..Len(token) : token[i] = ".")

\* the integer a short run of digits writes, digit by digit from the right
Weigh(ds) ==
    LET RECURSIVE sum(_)
        sum(k) == IF k = 0 THEN 0
                  ELSE sum(k - 1) + DigitValue(ds[k]) * Pow10(Len(ds) - k)
    IN  sum(Len(ds))

Signed(token, n) == IF Head(token) = "-" THEN -n ELSE n

\* the result for the token alone: that of the text, or the one element of
\* the list the text is
Parsed(ending) ==
    IF ending = ")" /\ outcome.kind = "Ok"
    THEN [outcome EXCEPT !.val = IF outcome.val.tag = "List" /\ Len(outcome.val.elts) = 1
                                  THEN outcome.val.elts[1] ELSE Blank]
    ELSE outcome

FailsWith(code) == outcome.kind = "Err" /\ outcome.code = code

\* the long tokens that an i64 holds: i64::MAX and i64::MIN
InRange ==
    {t \in LongTokens : \/ Head(t) # "-" /\ t[Len(t)] = "7"
                        \/ Head(t) = "-" /\ t[Len(t)] = "8"}

Lookahead == Len(src) - Len(reader)

\* the newlines among the first k characters of src
Newlines(k) == Cardinality({i \in 1..k : src[i] = LF})

\* the index of the last newline among the first k characters of src, or 0
LineStart(k) ==
    IF Newlines(k) = 0 THEN 0
    ELSE CHOOSE i \in 1..k : src[i] = LF /\ \A j \in (i + 1)..k : src[j] # LF

\* C26: line is 1 plus the number of newlines read and col is the index,
\* from 1, of the lookahead within its line, on every line; so line never
\* decreases; a SyntaxError carries the line and col of the lookahead at the
\* point of failure.
C26_Positions ==
    (calls >= 1 /\ ch # None /\ outcome.kind # "Panic") =>
        /\ ch = src[Lookahead]
        /\ line = 1 + Newlines(Lookahead)
        /\ ch # LF => col = Lookahead - LineStart(Lookahead)
        /\ outcome.kind = "Err" => outcome.line = line /\ outcome.col = col


C28_SemicolonInString ==
    calls >= 1 =>
        /\ (stack # <<>> /\ Top.fn = "parse_comment") =>
               \A i \in 1..Len(stack) : stack[i].fn # "parse_string"
        /\ (src = SemicolonText /\ Done) =>
               outcome = Ok(List(<<String(<<"a", ";", "b">>)>>))


RECURSIVE Nesting(_, _, _, _)
\* the round brackets left open at the end of text, counting none between the
\* double quotes of a string literal (where a backslash escapes the next
\* character); -1 if a ')' closes nothing
Nesting(text, depth, quoted, after_backslash) ==
    IF depth < 0 THEN -1
    ELSE IF text = <<>> THEN depth
    ELSE LET c == Head(text)
             rest == Tail(text)
         IN  IF quoted
             THEN IF after_backslash THEN Nesting(rest, depth, TRUE, FALSE)
                  ELSE IF c = BACKSLASH THEN Nesting(rest, depth, TRUE, TRUE)
                  ELSE Nesting(rest, depth, c # QUOTE, FALSE)
             ELSE IF c = QUOTE THEN Nesting(rest, depth, TRUE, FALSE)
             ELSE IF c = "(" THEN Nesting(rest, depth + 1, FALSE, FALSE)
             ELSE IF c = ")" THEN Nesting(rest, depth - 1, FALSE, FALSE)
             ELSE Nesting(rest, depth, FALSE, FALSE)

\* C29: the text to_string returns for a value, compound to any depth, has
\* as many '(' as ')' outside its string literals, each ')' closing a '('.
C29_Balanced ==
    (op.name = "to_string" /\ op.result.kind = "Ok") =>
        Nesting(op.result.output, 0, FALSE, FALSE) = 0


\* the list on top of the stack a read_tuple was made on
TopList == op.arg.stack[Len(op.arg.stack)]

\* C30: on a stack whose top is a List of m elements, read_seq calls f with
\* len = m and the m elements on the stack, the first on top; so
\* read_tuple(n, f) invokes f if and only if m = n and is an ExpectedError
\* otherwise, and after a tuple is read the reads have popped the elements
\* in list order and the stack is one shorter than before the call.
C30_TupleStack ==
    (/\ op.name = "read_tuple"
     /\ op.arg.stack # <<>>
     /\ TopList.tag = "List") =>
        /\ op.result.len = Len(TopList.elts)
        /\ op.result.called <=> Len(TopList.elts) = op.arg.tuple_len
        /\ ~op.result.called =>
               op.result.kind = "Err" /\ op.result.code = "ExpectedError"
        /\ (op.result.called /\ op.result.kind = "Ok") =>
               /\ op.result.values = TopList.elts
               /\ Len(op.result.stack) = Len(op.arg.stack) - 1

=============================================================================
